---------------------------- MODULE Spec2Model ----------------------------
(* A model of the GTS store (store.py) and of its cast engine              *)
(* (schema_cast.py).                                                       *)
(*                                                                         *)
(* JSON content is a tagged value [t, v]: t names the Python type the      *)
(* document loads as (dict, list, str, int, bool, None) and v holds the    *)
(* payload.  A dict is a function from its keys to values, so one model    *)
(* value stands for every insertion order of the same items.  The numbers  *)
(* of the model are integers and it has no floats, so that Python's ==     *)
(* on the modelled values is deep equality.                                *)
EXTENDS Integers, Sequences, FiniteSets, TLC

VARIABLES by_id, reader, lastOp, lastReg, replacedKeys,
          castPc, castInput, castXform, castResult, recastXform, recastResult,
          itemsCall, getCall

storeVars == <<by_id, reader, lastOp, lastReg, replacedKeys>>
castVars  == <<castPc, castInput, castXform, castResult, recastXform, recastResult>>
callVars  == <<itemsCall, getCall>>
vars      == <<by_id, reader, lastOp, lastReg, replacedKeys,
               castPc, castInput, castXform, castResult, recastXform, recastResult,
               itemsCall, getCall>>

-----------------------------------------------------------------------------
(* JSON values *)

JNull    == [t |-> "null", v |-> 0]
JBool(b) == [t |-> "bool", v |-> b]
JNum(n)  == [t |-> "num",  v |-> n]
JStr(s)  == [t |-> "str",  v |-> s]
JArr(s)  == [t |-> "arr",  v |-> s]
JObj(f)  == [t |-> "obj",  v |-> f]

\* Python's None: json loads null as None, and cast() returns None for "no document".
None == JNull

EmptyMap == [k \in {} |-> JNull]
EmptyObj == JObj(EmptyMap)

IsDict(j) == j.t = "obj"
IsList(j) == j.t = "arr"

\* d.get(k, dflt) on a dict d
DictGet(d, k, dflt) == IF k \in DOMAIN d.v THEN d.v[k] ELSE dflt

\* d[k] = val
DictSet(d, k, val) == JObj([x \in (DOMAIN d.v) \cup {k} |-> IF x = k THEN val ELSE d.v[x]])

\* del d[k] for every k in ks
DictDel(d, ks) == JObj([x \in (DOMAIN d.v) \ ks |-> d.v[x]])

\* f"{base_path}.{prop}" if base_path else prop
PathJoin(base_path, prop) == IF base_path # "" THEN base_path \o "." \o prop ELSE prop

\* f"{base_path}.{prop}[{idx}]" if base_path else f"{prop}[{idx}]"; idx counts from 0
PathIndex(base_path, prop, i) == PathJoin(base_path, prop) \o "[" \o ToString(i - 1) \o "]"

-----------------------------------------------------------------------------
(* gts.py: identifiers.  The strings of the model are TLA+ strings; Chars  *)
(* gives the characters of each string that the model hands to the         *)
(* identifier parser, and the parser works on the characters.              *)

ModelStrings ==
    {"gts.a",
     "gts.b",
     "gts.s~",
     "gts.t~",
     " gts.s~",
     "gts.zz",
     "gts.x.p.n.t.v1.0",
     "gts.x.p.n.t.v1.1~",
     "gts.x.p.n.t.v1~",
     "gts.",
     "x",
     "object",
     "integer",
     "string",
     "array",
     "http://json-schema.org/draft-07/schema#",
     "http://json-schema.org/",
     "https://json-schema.org/",
     "gts://",
     "http://json-schema.org",
     "https://json-schema.org",
     "~",
     "",
     "id",
     "name",
     "ref",
     "n",
     " "}

Chars(s) ==
    CASE s = "gts.a" -> <<"g", "t", "s", ".", "a">>
      [] s = "gts.b" -> <<"g", "t", "s", ".", "b">>
      [] s = "gts.s~" -> <<"g", "t", "s", ".", "s", "~">>
      [] s = "gts.t~" -> <<"g", "t", "s", ".", "t", "~">>
      [] s = " gts.s~" -> <<" ", "g", "t", "s", ".", "s", "~">>
      [] s = "gts.zz" -> <<"g", "t", "s", ".", "z", "z">>
      [] s = "gts.x.p.n.t.v1.0" -> <<"g", "t", "s", ".", "x", ".", "p", ".", "n", ".", "t", ".", "v", "1", ".", "0">>
      [] s = "gts.x.p.n.t.v1.1~" -> <<"g", "t", "s", ".", "x", ".", "p", ".", "n", ".", "t", ".", "v", "1", ".", "1", "~">>
      [] s = "gts.x.p.n.t.v1~" -> <<"g", "t", "s", ".", "x", ".", "p", ".", "n", ".", "t", ".", "v", "1", "~">>
      [] s = "gts." -> <<"g", "t", "s", ".">>
      [] s = "x" -> <<"x">>
      [] s = "object" -> <<"o", "b", "j", "e", "c", "t">>
      [] s = "integer" -> <<"i", "n", "t", "e", "g", "e", "r">>
      [] s = "string" -> <<"s", "t", "r", "i", "n", "g">>
      [] s = "array" -> <<"a", "r", "r", "a", "y">>
      [] s = "http://json-schema.org/draft-07/schema#" -> <<"h", "t", "t", "p", ":", "/", "/", "j", "s", "o", "n", "-", "s", "c", "h", "e", "m", "a", ".", "o", "r", "g", "/", "d", "r", "a", "f", "t", "-", "0", "7", "/", "s", "c", "h", "e", "m", "a", "#">>
      [] s = "http://json-schema.org/" -> <<"h", "t", "t", "p", ":", "/", "/", "j", "s", "o", "n", "-", "s", "c", "h", "e", "m", "a", ".", "o", "r", "g", "/">>
      [] s = "https://json-schema.org/" -> <<"h", "t", "t", "p", "s", ":", "/", "/", "j", "s", "o", "n", "-", "s", "c", "h", "e", "m", "a", ".", "o", "r", "g", "/">>
      [] s = "gts://" -> <<"g", "t", "s", ":", "/", "/">>
      [] s = "http://json-schema.org" -> <<"h", "t", "t", "p", ":", "/", "/", "j", "s", "o", "n", "-", "s", "c", "h", "e", "m", "a", ".", "o", "r", "g">>
      [] s = "https://json-schema.org" -> <<"h", "t", "t", "p", "s", ":", "/", "/", "j", "s", "o", "n", "-", "s", "c", "h", "e", "m", "a", ".", "o", "r", "g">>
      [] s = "~" -> <<"~">>
      [] s = "" -> <<>>
      [] s = "id" -> <<"i", "d">>
      [] s = "name" -> <<"n", "a", "m", "e">>
      [] s = "ref" -> <<"r", "e", "f">>
      [] s = "n" -> <<"n">>
      [] s = " " -> <<" ">>
      [] OTHER -> <<"?">>

\* The model string with these characters
Str(cs) == CHOOSE s \in ModelStrings : Chars(s) = cs

\* GTS_PREFIX = "gts."
GTS_PREFIX == <<"g", "t", "s", ".">>

\* len(raw) > 1024, line 119
GTS_MAX_LEN == 1024

StartsWith(cs, pre) == Len(cs) >= Len(pre) /\ SubSeq(cs, 1, Len(pre)) = pre

EndsWith(cs, suf) == Len(cs) >= Len(suf) /\ SubSeq(cs, Len(cs) - Len(suf) + 1, Len(cs)) = suf

\* str.strip(): the whitespace of the model is the blank
Strip(cs) ==
    LET solid == {i \in DOMAIN cs : cs[i] # " "}
    IN IF solid = {} THEN <<>>
       ELSE SubSeq(cs, CHOOSE i \in solid : \A j \in solid : i <= j,
                       CHOOSE i \in solid : \A j \in solid : j <= i)

\* str.split(sep) for a one-character sep
RECURSIVE Split(_, _)
Split(cs, sep) ==
    LET hits == {i \in DOMAIN cs : cs[i] = sep}
    IN IF hits = {} THEN <<cs>>
       ELSE LET i == CHOOSE x \in hits : \A y \in hits : x <= y
            IN <<SubSeq(cs, 1, i - 1)>> \o Split(SubSeq(cs, i + 1, Len(cs)), sep)

DigitVal(c) ==
    CASE c = "0" -> 0 [] c = "1" -> 1 [] c = "2" -> 2 [] c = "3" -> 3 [] c = "4" -> 4
      [] c = "5" -> 5 [] c = "6" -> 6 [] c = "7" -> 7 [] c = "8" -> 8 [] c = "9" -> 9
      [] OTHER -> -1

RECURSIVE DigitsVal(_)
DigitsVal(ds) ==
    IF ds = <<>> THEN 0 ELSE 10 * DigitsVal(SubSeq(ds, 1, Len(ds) - 1)) + DigitVal(ds[Len(ds)])

\* int(text) on the stripped text: an optional sign, then decimal digits.
\* (int also accepts "_" between digits; no text of the model holds one.)
\* <<>> stands for ValueError, <<n>> for the integer n.
PyIntOf(body) ==
    LET signed == body # <<>> /\ body[1] \in {"+", "-"}
        digits == IF signed THEN Tail(body) ELSE body
    IN IF digits = <<>> \/ \E i \in DOMAIN digits : DigitVal(digits[i]) < 0
       THEN <<>>
       ELSE <<(IF signed /\ body[1] = "-" THEN -1 ELSE 1) * DigitsVal(digits)>>

\* int(text): blanks around the number are accepted
PyInt(text) == PyIntOf(Strip(text))

\* _parse_segment_id, lines 74-81: the "~" is dropped, the rest is split at "."
SegmentTokens(segment) ==
    Split(IF EndsWith(segment, <<"~">>) THEN SubSeq(segment, 1, Len(segment) - 1) ELSE segment,
          ".")

\* the first token that is "*" ends the parse of the segment; Len(tokens) + 1 if none is
FirstStar(tokens) ==
    LET stars == {i \in DOMAIN tokens : tokens[i] = <<"*">>}
    IN IF stars = {} THEN Len(tokens) + 1 ELSE CHOOSE i \in stars : \A j \in stars : i <= j

\* lines 95-111: int(tokens[4][1:]) and int(tokens[5]), where the parse gets there
SegmentVersions(tokens, star) ==
    [major |-> IF Len(tokens) >= 5 /\ star > 5 THEN PyInt(Tail(tokens[5])) ELSE <<0>>,
     minor |-> IF Len(tokens) >= 6 /\ star > 6 THEN PyInt(tokens[6]) ELSE <<>>]

\* why GtsInvalidSegment is raised, "" if it is not
SegmentCause(tokens, star, ver) ==
    IF Len(tokens) > 6 THEN "Too many tokens"
    ELSE IF Len(tokens) >= 5 /\ star > 5 /\ ~StartsWith(tokens[5], <<"v">>)
         THEN "Major version must start with 'v'"
    ELSE IF Len(tokens) >= 5 /\ star > 5 /\ ver.major = <<>>
         THEN "Major version must be an integer"
    ELSE IF Len(tokens) >= 6 /\ star > 6 /\ ver.minor = <<>>
         THEN "Minor version must be an integer"
    ELSE ""

\* the fields of the segment, given its tokens, versions and the cause of a raise
SegmentFields(num, offset, segment, tokens, star, ver, cause) ==
    LET Bound(i) == IF i <= Len(tokens) /\ i < star THEN tokens[i] ELSE <<>>
    IN [ok          |-> cause = "",
        cause       |-> cause,
        num         |-> num,
        offset      |-> offset,
        segment     |-> Strip(segment),
        vendor      |-> Bound(1),
        package     |-> Bound(2),
        namespace   |-> Bound(3),
        type        |-> Bound(4),
        ver_major   |-> IF cause = "" /\ ver.major # <<>> THEN ver.major[1] ELSE 0,
        ver_minor   |-> IF cause = "" THEN ver.minor ELSE <<>>,
        is_type     |-> EndsWith(segment, <<"~">>),
        is_wildcard |-> star <= Len(tokens)]

SegmentVersioned(num, offset, segment, tokens, star, ver) ==
    SegmentFields(num, offset, segment, tokens, star, ver, SegmentCause(tokens, star, ver))

SegmentTokenized(num, offset, segment, tokens, star) ==
    SegmentVersioned(num, offset, segment, tokens, star, SegmentVersions(tokens, star))

(* GtsIdSegment.__init__ and _parse_segment_id.  ok is FALSE when          *)
(* GtsInvalidSegment is raised, and cause then names why.  ver_minor is    *)
(* <<>> for None and <<n>> for the integer n.                              *)
GtsIdSegment(num, offset, segment) ==
    SegmentTokenized(num, offset, segment, SegmentTokens(segment),
                     FirstStar(SegmentTokens(segment)))

\* lines 126-134: the segment strings, each with its "~", the empty tail dropped
PartsOf(_parts) ==
    LET n    == Len(_parts)
        last == IF n >= 2 /\ _parts[n] = <<>> THEN n - 1 ELSE n
    IN [i \in 1..last |-> IF i < n THEN _parts[i] \o <<"~">> ELSE _parts[i]]

SegmentParts(rest) == PartsOf(Split(rest, "~"))

\* offset of parts[i]: len(GTS_PREFIX) plus the lengths of the parts before it
RECURSIVE PartOffset(_, _)
PartOffset(parts, i) ==
    IF i = 1 THEN Len(GTS_PREFIX) ELSE PartOffset(parts, i - 1) + Len(parts[i - 1])

ParseFail(why) == [valid |-> FALSE, cause |-> why, id |-> <<>>, gts_id_segments |-> <<>>]

\* the loop of lines 137-142 stops at the first part that raises
ParseChecked(raw, parts, segs) ==
    LET bad   == {i \in DOMAIN parts : parts[i] = <<>> \/ ~segs[i].ok}
        first == CHOOSE i \in bad : \A j \in bad : i <= j
    IN IF bad # {}
       THEN ParseFail(IF parts[first] = <<>> THEN "empty segment" ELSE segs[first].cause)
       ELSE [valid |-> TRUE, cause |-> "", id |-> raw, gts_id_segments |-> segs]

ParseSegments(raw, parts) ==
    ParseChecked(raw, parts,
                 [i \in DOMAIN parts |-> GtsIdSegment(i, PartOffset(parts, i), parts[i])])

ParseRaw(raw) ==
    IF ~StartsWith(raw, GTS_PREFIX) THEN ParseFail("Does not start with 'gts.'")
    ELSE IF Len(raw) > GTS_MAX_LEN THEN ParseFail("Too long")
    ELSE ParseSegments(raw, SegmentParts(SubSeq(raw, Len(GTS_PREFIX) + 1, Len(raw))))

(* GtsID.__init__ on the characters of a string.  valid is FALSE when the  *)
(* constructor raises, and cause then names why; id holds the characters   *)
(* of self.id.                                                             *)
ParseGtsID(cs) == ParseRaw(Strip(cs))

GtsIDOf(g) ==
    [valid |-> g.valid, cause |-> g.cause,
     id |-> IF g.valid THEN Str(g.id) ELSE "",
     gts_id_segments |-> g.gts_id_segments]

\* GtsID(s) for a model string s; id is the string self.id
GtsID(s) == GtsIDOf(ParseGtsID(Chars(s)))

IsValidChars(cs) == StartsWith(cs, GTS_PREFIX) /\ ParseGtsID(cs).valid

\* GtsID.is_valid: the prefix test of line 158 is on the unstripped string
IsValidGtsID(s) == IsValidChars(Chars(s))

-----------------------------------------------------------------------------
(* The JSON Schema validator the cast engine and the store call            *)
(* (jsonschema.validate).  It is a library outside the repository; the     *)
(* model gives it the meaning of the keywords the modelled schemas use:    *)
(* type, required, properties, additionalProperties: false, items, allOf.  *)
(* default is an annotation and validates nothing.  The value is the set   *)
(* of messages of the violations found; the empty set means "valid".       *)

TypeOk(j, ty) ==
    CASE ty = "object"  -> j.t = "obj"
      [] ty = "array"   -> j.t = "arr"
      [] ty = "string"  -> j.t = "str"
      [] ty = "integer" -> j.t = "num"
      [] ty = "number"  -> j.t = "num"
      [] ty = "boolean" -> j.t = "bool"
      [] ty = "null"    -> j.t = "null"
      [] OTHER          -> TRUE

RECURSIVE JsErrors(_, _)
JsErrors(instance, schema) ==
    IF ~IsDict(schema) THEN {}
    ELSE
      LET ty     == DictGet(schema, "type", None)
          props  == DictGet(schema, "properties", EmptyObj)
          req    == DictGet(schema, "required", JArr(<<>>))
          addl   == DictGet(schema, "additionalProperties", JBool(TRUE))
          items  == DictGet(schema, "items", None)
          allOf  == DictGet(schema, "allOf", JArr(<<>>))
          tyErr  == IF ty.t = "str" /\ ~TypeOk(instance, ty.v)
                    THEN {"is not of type '" \o ty.v \o "'"} ELSE {}
          reqErr == IF IsDict(instance) /\ IsList(req)
                    THEN {"'" \o req.v[i].v \o "' is a required property" :
                            i \in {n \in DOMAIN req.v : req.v[n].t = "str"
                                                     /\ req.v[n].v \notin DOMAIN instance.v}}
                    ELSE {}
          prErr  == IF IsDict(instance) /\ IsDict(props)
                    THEN UNION {JsErrors(instance.v[k], props.v[k]) :
                                  k \in (DOMAIN instance.v) \cap (DOMAIN props.v)}
                    ELSE {}
          adErr  == IF IsDict(instance) /\ addl = JBool(FALSE)
                    THEN {"Additional properties are not allowed ('" \o k \o "')" :
                            k \in (DOMAIN instance.v) \ (IF IsDict(props) THEN DOMAIN props.v ELSE {})}
                    ELSE {}
          itErr  == IF IsList(instance) /\ IsDict(items)
                    THEN UNION {JsErrors(instance.v[i], items) : i \in DOMAIN instance.v}
                    ELSE {}
          aoErr  == IF IsList(allOf)
                    THEN UNION {JsErrors(instance, allOf.v[i]) : i \in DOMAIN allOf.v}
                    ELSE {}
      IN tyErr \cup reqErr \cup prErr \cup adErr \cup itErr \cup aoErr

-----------------------------------------------------------------------------
(* schema_cast.py *)

\* isinstance(s.get("properties"), dict) or isinstance(s.get("required"), list)
HasObjectKeywords(s) ==
    \/ IsDict(DictGet(s, "properties", None))
    \/ IsList(DictGet(s, "required", None))

\* JsonEntityCastResult._effective_object_schema
EffectiveObjectSchema(s) ==
    IF ~IsDict(s) THEN EmptyObj
    ELSE IF HasObjectKeywords(s) THEN s
    ELSE LET allOf == DictGet(s, "allOf", None)
             hits  == IF IsList(allOf)
                      THEN {i \in DOMAIN allOf.v : IsDict(allOf.v[i]) /\ HasObjectKeywords(allOf.v[i])}
                      ELSE {}
         IN IF hits # {}
            THEN allOf.v[CHOOSE i \in hits : \A j \in hits : i <= j]
            ELSE s

\* isinstance(p_schema, dict) and "default" in p_schema
HasDefault(p_schema) == IsDict(p_schema) /\ "default" \in DOMAIN p_schema.v

\* SchemaCastError raised at line 150
NotObjectMsg == "Instance must be an object for casting"

\* SchemaCastError raised at line 169
MissingMsg(path) == "Missing required property '" \o path \o "' and no default is defined"

\* schema.get("properties", {}) if isinstance(schema.get("properties"), dict) else {}
TargetProps(schema) ==
    LET p == DictGet(schema, "properties", EmptyObj) IN IF IsDict(p) THEN p ELSE EmptyObj

\* set(schema.get("required", [])) if isinstance(schema.get("required"), list) else set()
RequiredSet(schema) ==
    LET r == DictGet(schema, "required", JArr(<<>>))
    IN IF IsList(r) THEN {r.v[i].v : i \in DOMAIN r.v} ELSE {}

\* a step 1 that never raises
MissingNoDefaultNone(instance, schema) == {}

\* Step 1, lines 159-169: the required names that are absent and have no default.
\* The loop runs over a Python set, whose order is not fixed: any of them may be
\* the one the error names.
MissingNoDefault(instance, schema) ==
    {p \in RequiredSet(schema) :
        p \notin DOMAIN instance.v /\ ~HasDefault(DictGet(TargetProps(schema), p, EmptyObj))}

\* a transformation without step 2: the defaults of the required names alone
DefaultedRequiredOnly(instance, schema) ==
    {p \in RequiredSet(schema) :
        p \notin DOMAIN instance.v /\ HasDefault(DictGet(TargetProps(schema), p, EmptyObj))}

\* Steps 1 and 2, lines 159-178: the names whose default is inserted.
DefaultedNames(instance, schema) ==
    LET target_props == TargetProps(schema)
        required     == RequiredSet(schema)
    IN {p \in required : p \notin DOMAIN instance.v
                         /\ HasDefault(DictGet(target_props, p, EmptyObj))}
       \cup
       {p \in DOMAIN target_props.v : p \notin required /\ p \notin DOMAIN instance.v
                                      /\ HasDefault(target_props.v[p])}

\* a step 3 that does not look at additionalProperties
PrunedNamesAlways(result, schema) == (DOMAIN result.v) \ (DOMAIN TargetProps(schema).v)

\* a step 3 that spares the names of the required list
PrunedNamesSparing(result, schema) ==
    IF DictGet(schema, "additionalProperties", JBool(TRUE)) = JBool(FALSE)
    THEN ((DOMAIN result.v) \ (DOMAIN TargetProps(schema).v)) \ RequiredSet(schema)
    ELSE {}

\* Step 3, lines 180-186: the keys deleted from result (additional is False).
PrunedNames(result, schema) ==
    IF DictGet(schema, "additionalProperties", JBool(TRUE)) = JBool(FALSE)
    THEN (DOMAIN result.v) \ (DOMAIN TargetProps(schema).v)
    ELSE {}

\* raise SchemaCastError(msg), for each message the raise may carry
CastRaise(msgs) ==
    [ok |-> FALSE, result |-> None, added |-> {}, removed |-> {}, errors |-> msgs]

\* result after steps 1 and 2, lines 159-178: copy.deepcopy of each default inserted
WithDefaults(instance, target_props, defaulted) ==
    JObj([k \in (DOMAIN instance.v) \cup defaulted |->
            IF k \in DOMAIN instance.v THEN instance.v[k]
            ELSE target_props.v[k].v["default"]])

\* p_schema.get("type") of the property schema of k, lines 189-193
PropType(target_props, k) ==
    IF IsDict(target_props.v[k]) THEN DictGet(target_props.v[k], "type", None) ELSE None

\* lines 196-197: the keys whose value is cast as a nested object
ObjProps(kept, target_props) ==
    {k \in (DOMAIN target_props.v) \cap (DOMAIN kept.v) :
        PropType(target_props, k) = JStr("object") /\ IsDict(kept.v[k])}

\* lines 204-207: the keys whose value is a list with object items
ArrProps(kept, target_props) ==
    {k \in (DOMAIN target_props.v) \cap (DOMAIN kept.v) :
        /\ PropType(target_props, k) = JStr("array") /\ IsList(kept.v[k])
        /\ IsDict(DictGet(target_props.v[k], "items", None))
        /\ DictGet(target_props.v[k].v["items"], "type", None) = JStr("object")}

\* lines 210-211: <<key, index>> of the list items that are dicts
ArrItems(kept, target_props) ==
    UNION {{<<k, i>> : i \in {n \in DOMAIN kept.v[k].v : IsDict(kept.v[k].v[n])}} :
             k \in ArrProps(kept, target_props)}

\* Step 4, lines 188-221, given the results of the nested calls: subs for the
\* object values, items for the list items
CastNested(kept, added, removed, subs, items) ==
    LET subErrors == UNION ({IF subs[k].ok THEN {} ELSE subs[k].errors : k \in DOMAIN subs}
                            \cup {IF items[e].ok THEN {} ELSE items[e].errors :
                                    e \in DOMAIN items})
        NewList(k) == [i \in DOMAIN kept.v[k].v |->
                         IF <<k, i>> \in DOMAIN items THEN items[<<k, i>>].result
                         ELSE kept.v[k].v[i]]
    IN IF subErrors # {} THEN CastRaise(subErrors)
       ELSE [ok      |-> TRUE,
             result  |-> JObj([k \in DOMAIN kept.v |->
                                 IF k \in DOMAIN subs THEN subs[k].result
                                 ELSE IF \E e \in DOMAIN items : e[1] = k THEN JArr(NewList(k))
                                 ELSE kept.v[k]]),
             added   |-> added \cup UNION {subs[k].added : k \in DOMAIN subs}
                               \cup UNION {items[e].added : e \in DOMAIN items},
             removed |-> removed \cup UNION {subs[k].removed : k \in DOMAIN subs}
                                 \cup UNION {items[e].removed : e \in DOMAIN items},
             errors  |-> {}]

RECURSIVE CastInstanceToSchema(_, _, _)

\* Step 4: the nested calls on the result of step 3
CastStep4(kept, target_props, base_path, added, removed) ==
    CastNested(kept, added, removed,
        [k \in ObjProps(kept, target_props) |->
            CastInstanceToSchema(kept.v[k], EffectiveObjectSchema(target_props.v[k]),
                                 PathJoin(base_path, k))],
        [e \in ArrItems(kept, target_props) |->
            CastInstanceToSchema(kept.v[e[1]].v[e[2]],
                                 EffectiveObjectSchema(target_props.v[e[1]].v["items"]),
                                 PathIndex(base_path, e[1], e[2]))])

\* Step 3, lines 180-186, on the result of steps 1 and 2
CastStep3(filled, schema, target_props, base_path, defaulted) ==
    CastStep4(DictDel(filled, PrunedNames(filled, schema)), target_props, base_path,
              {PathJoin(base_path, p) : p \in defaulted},
              {PathJoin(base_path, p) : p \in PrunedNames(filled, schema)})

\* Steps 1 and 2 where no required name is missing without a default
CastSteps(instance, schema, target_props, base_path, defaulted) ==
    CastStep3(WithDefaults(instance, target_props, defaulted), schema, target_props,
              base_path, defaulted)

(* JsonEntityCastResult._cast_instance_to_schema.  The value is             *)
(*   [ok, result, added, removed, errors]:                                  *)
(* ok is FALSE when SchemaCastError is raised, and errors then holds the    *)
(* messages the raise may carry (one per iteration order); added and        *)
(* removed are the sets of the paths in the two lists the code builds,      *)
(* which cast() sorts and dedups before it returns them.                    *)
CastInstanceToSchema(instance, schema, base_path) ==
    IF ~IsDict(instance) THEN CastRaise({NotObjectMsg})
    ELSE IF MissingNoDefault(instance, schema) # {}
         THEN CastRaise({MissingMsg(PathJoin(base_path, p)) :
                           p \in MissingNoDefault(instance, schema)})
    ELSE CastSteps(instance, schema, TargetProps(schema), base_path,
                   DefaultedNames(instance, schema))

\* the minor version of the last segment, <<>> for None
LastMinor(g) == g.gts_id_segments[Len(g.gts_id_segments)].ver_minor

DirectionOf(gid_from, gid_to) ==
    IF ~gid_from.valid \/ ~gid_to.valid THEN "unknown"
    ELSE IF LastMinor(gid_from) # <<>> /\ LastMinor(gid_to) # <<>>
         THEN IF LastMinor(gid_to)[1] > LastMinor(gid_from)[1] THEN "up"
              ELSE IF LastMinor(gid_to)[1] < LastMinor(gid_from)[1] THEN "down"
              ELSE "none"
    ELSE "unknown"

\* JsonEntityCastResult._infer_direction
InferDirection(from_id, to_id) == DirectionOf(GtsID(from_id), GtsID(to_id))

\* lines 61-66: the transformation cast() runs; a content that is no dict is
\* replaced by {} before the call
CastXform(from_instance_content, to_schema_content) ==
    CastInstanceToSchema(
        IF IsDict(from_instance_content) THEN from_instance_content ELSE EmptyObj,
        EffectiveObjectSchema(to_schema_content),
        "")

\* lines 80-86: the messages js_validate may raise on the transformed instance
CastValidation(xf, to_schema_content) == JsErrors(xf.result, to_schema_content)

\* JsonEntityCastResult(...), lines 88-98 and 68-78
CastResult(from_id, to_id, direction, added, removed, fully_compatible, reasons, casted) ==
    [from_id |-> from_id,
     to_id |-> to_id,
     direction |-> direction,
     added_properties |-> added,
     removed_properties |-> removed,
     changed_properties |-> <<>>,
     fully_compatible |-> fully_compatible,
     incompatibility_reasons |-> reasons,
     casted_instance |-> casted]

\* a cast that returns the transformed instance whatever the validator says
CastOutcomesKeepInstance(from_id, to_id, direction, xf, reasons) ==
    IF ~xf.ok
    THEN {CastResult(from_id, to_id, direction, {}, {}, FALSE, <<e>>, None) : e \in xf.errors}
    ELSE IF reasons = {}
         THEN {CastResult(from_id, to_id, direction, xf.added, xf.removed, TRUE, <<>>,
                          xf.result)}
         ELSE {CastResult(from_id, to_id, direction, xf.added, xf.removed, FALSE, <<m>>,
                          xf.result) : m \in reasons}

\* the results of cast(), given the direction, the transformation and the
\* messages of the validator
CastOutcomes(from_id, to_id, direction, xf, reasons) ==
    IF ~xf.ok
    \* lines 67-78: added and removed are still the empty lists of lines 57-58
    THEN {CastResult(from_id, to_id, direction, {}, {}, FALSE, <<e>>, None) : e \in xf.errors}
    ELSE IF reasons = {}
         THEN {CastResult(from_id, to_id, direction, xf.added, xf.removed, TRUE, <<>>,
                          xf.result)}
         ELSE {CastResult(from_id, to_id, direction, xf.added, xf.removed, FALSE, <<m>>,
                          None) : m \in reasons}

(* JsonEntityCastResult.cast: the results the call may return (one per     *)
(* message the error or the validator may carry).  added_properties and    *)
(* removed_properties are sorted lists without duplicates in the code and  *)
(* sets here.                                                              *)
CastResults(from_instance_id, to_schema_id, from_instance_content, to_schema_content) ==
    CastOutcomes(from_instance_id, to_schema_id,
                 InferDirection(from_instance_id, to_schema_id),
                 CastXform(from_instance_content, to_schema_content),
                 CastValidation(CastXform(from_instance_content, to_schema_content),
                                to_schema_content))

-----------------------------------------------------------------------------
(* The documents the cast engine is run on *)

Obj1(k1, v1) == JObj((k1 :> v1))
Obj2(k1, v1, k2, v2) == JObj((k1 :> v1) @@ (k2 :> v2))
Obj3(k1, v1, k2, v2, k3, v3) == JObj((k1 :> v1) @@ (k2 :> v2) @@ (k3 :> v3))
Obj4(k1, v1, k2, v2, k3, v3, k4, v4) == JObj((k1 :> v1) @@ (k2 :> v2) @@ (k3 :> v3) @@ (k4 :> v4))
StrList(names) == JArr([i \in DOMAIN names |-> JStr(names[i])])

\* an object with the entries of m whose value is not Absent
Absent == [t |-> "absent", v |-> 0]
Compact(m) == JObj([k \in {x \in DOMAIN m : m[x] # Absent} |-> m[k]])

PInt     == Obj1("type", JStr("integer"))
PIntDef  == Obj2("type", JStr("integer"), "default", JNum(7))
\* a default that its own property schema rejects
PStrDef  == Obj2("type", JStr("string"), "default", JNum(7))
NestedC  == Obj1("c", PInt)
NestedCD == Obj1("c", Obj2("type", JStr("integer"), "default", JNum(1)))
\* a nested object with a required name that has no default, closed
PObjReq  == Obj4("type", JStr("object"), "properties", NestedC,
                 "required", StrList(<<"c">>), "additionalProperties", JBool(FALSE))
\* a nested object that has a default itself and a default inside
PObjDef  == Obj4("type", JStr("object"), "default", EmptyObj,
                 "properties", NestedCD, "required", StrList(<<"c">>))
\* an array of closed objects with a defaulted required name
PArr     == Obj2("type", JStr("array"),
                 "items", Obj4("type", JStr("object"), "properties", NestedCD,
                               "required", StrList(<<"c">>),
                               "additionalProperties", JBool(FALSE)))

PropSchemasA == {Absent, PInt, PIntDef, PStrDef, PObjReq, PObjDef, PArr}
PropSchemasB == {Absent, PInt, PIntDef}
RequiredLists == {Absent, StrList(<<>>), StrList(<<"a">>), StrList(<<"b">>),
                  StrList(<<"a", "b">>), StrList(<<"z">>)}
AdditionalValues == {Absent, JBool(FALSE), JBool(TRUE)}

FlatSchemas ==
    {Compact([type |-> JStr("object"),
              properties |-> Compact([a |-> pa, b |-> pb]),
              required |-> rq,
              additionalProperties |-> ad]) :
        pa \in PropSchemasA, pb \in PropSchemasB, rq \in RequiredLists, ad \in AdditionalValues}

\* schemas whose object keywords sit in an allOf member
AllOfSchemas ==
    {Obj1("allOf", JArr(<<Obj1("type", JStr("object")),
                          Compact([properties |-> Compact([a |-> pa, b |-> PInt]),
                                   required |-> StrList(<<"b">>),
                                   additionalProperties |-> ad])>>)) :
        pa \in {PInt, PIntDef, PObjReq}, ad \in {Absent, JBool(FALSE)}}

TargetSchemas == FlatSchemas \cup AllOfSchemas

ValuesA == {Absent, JNum(1), EmptyObj, Obj1("c", JNum(1)), Obj2("c", JNum(1), "y", JNum(2)),
            JArr(<<EmptyObj, JNum(1)>>)}
ValuesB == {Absent, JNum(2)}
ValuesZ == {Absent, JNum(9)}

ObjectInstances == {Compact([a |-> va, b |-> vb, z |-> vz]) :
                       va \in ValuesA, vb \in ValuesB, vz \in ValuesZ}
OtherInstances  == {JArr(<<JNum(1), JNum(2)>>), JStr("x"), JNum(5), JBool(TRUE), JNull}
Instances       == ObjectInstances \cup OtherInstances

\* (instance id, target schema id)
CastIds == {<<"gts.x.p.n.t.v1.0", "gts.x.p.n.t.v1.1~">>}

NoXform  == [ok |-> FALSE, result |-> None, added |-> {}, removed |-> {}, errors |-> {}]
NoResult == [from_id |-> "", to_id |-> "", direction |-> "", added_properties |-> {},
             removed_properties |-> {}, changed_properties |-> <<>>,
             fully_compatible |-> FALSE, incompatibility_reasons |-> <<>>,
             casted_instance |-> None]

-----------------------------------------------------------------------------
(* entities.py *)

\* DEFAULT_GTS_CONFIG, lines 50-71
DEFAULT_GTS_CONFIG ==
    [entity_id_fields |-> <<"$id", "gtsId", "gtsIid", "gtsOid", "gtsI", "gts_id", "gts_oid",
                            "gts_iid", "id">>,
     schema_id_fields |-> <<"$schema", "gtsTid", "gtsT", "gts_t", "gts_tid", "type", "schema">>]

\* str.startswith on two model strings
StrStartsWith(s, prefix) == StartsWith(Chars(s), Chars(prefix))

\* s.startswith(p) for one of the prefixes
StartsWithAny(s, prefixes) == \E p \in prefixes : StrStartsWith(s, p)

\* JsonEntity._is_json_schema_entity
IsJsonSchemaEntity(content) ==
    /\ IsDict(content)
    /\ DictGet(content, "$schema", None).t = "str"
    /\ StartsWithAny(content.v["$schema"].v,
                     {"http://json-schema.org/", "https://json-schema.org/", "gts://", "gts."})

\* (self.content or {}).get(f) if isinstance(self.content, dict) else None
FieldValue(content, f) == IF IsDict(content) THEN DictGet(content, f, None) ELSE None

\* the indices of the fields with isinstance(v, str) and v.strip()
FilledFields(content, fields) ==
    {i \in DOMAIN fields : /\ FieldValue(content, fields[i]).t = "str"
                           /\ Strip(Chars(FieldValue(content, fields[i]).v)) # <<>>}

\* of those, the ones with GtsID.is_valid(v)
ValidFields(content, fields, filled) ==
    {i \in filled : IsValidGtsID(FieldValue(content, fields[i]).v)}

\* (f, v) of the first field of the list whose index is in S
FirstField(content, fields, S) ==
    LET i == CHOOSE x \in S : \A y \in S : x <= y
    IN <<fields[i], FieldValue(content, fields[i]).v>>

\* the second loop of _first_non_empty_field alone
FirstFilled(content, fields, valid, filled) ==
    IF filled # {} THEN FirstField(content, fields, filled) ELSE <<>>

\* the two loops of _first_non_empty_field, lines 235-251
FirstOf(content, fields, valid, filled) ==
    IF valid # {} THEN FirstField(content, fields, valid)
    ELSE IF filled # {} THEN FirstField(content, fields, filled)
    ELSE <<>>

FirstOfFilled(content, fields, filled) ==
    FirstOf(content, fields, ValidFields(content, fields, filled), filled)

\* JsonEntity._first_non_empty_field: <<>> for None, else <<field, value>>
FirstNonEmptyField(content, fields) ==
    FirstOfFilled(content, fields, FilledFields(content, fields))

\* [field, id] of a candidate, field "" when no field was selected
SelectedId(cand) ==
    IF cand # <<>> THEN [field |-> cand[1], id |-> cand[2]] ELSE [field |-> "", id |-> ""]

\* JsonEntity._calc_json_entity_id for an entity that comes from no file:
\* [field, id], field "" when no field was selected
CalcJsonEntityId(content, cfg) == SelectedId(FirstNonEmptyField(content, cfg.entity_id_fields))

\* idv[: idv.rfind("~") + 1], lines 271-274; <<>> when rfind gives no index above 0
TypePrefix(cs) ==
    LET tildes == {i \in DOMAIN cs : cs[i] = "~"}
        last   == CHOOSE i \in tildes : \A j \in tildes : j <= i
    IN IF tildes # {} /\ last - 1 > 0 THEN SubSeq(cs, 1, last) ELSE <<>>

\* lines 267-277, when no schema id field is filled: own is the entity id
DerivedSchemaId(own, cs) ==
    IF own.id # "" /\ IsValidChars(cs)
    THEN IF EndsWith(cs, <<"~">>) THEN [field |-> "", id |-> own.id]
         ELSE IF TypePrefix(cs) # <<>> THEN [field |-> own.field, id |-> Str(TypePrefix(cs))]
         ELSE [field |-> "", id |-> ""]
    ELSE [field |-> "", id |-> ""]

SchemaIdOf(cand, own) ==
    IF cand # <<>> THEN SelectedId(cand) ELSE DerivedSchemaId(own, Chars(own.id))

\* JsonEntity._calc_json_schema_id for an entity that comes from no file
CalcJsonSchemaId(content, cfg) ==
    SchemaIdOf(FirstNonEmptyField(content, cfg.schema_id_fields),
               CalcJsonEntityId(content, cfg))

\* found.append({"id": v, "sourcePath": path}) if GtsID.is_valid(v)
FoundAt(v, path) ==
    IF v.t = "str" /\ IsValidGtsID(v.v) THEN {[id |-> v.v, sourcePath |-> path]} ELSE {}

(* JsonEntity._extract_gts_ids_with_paths.  The code returns the list of   *)
(* the {id, sourcePath} records without duplicates, in the order the walk  *)
(* finds them, which for a dict is its insertion order; the model's dicts  *)
(* have no order and the value here is the set of the records.             *)
RECURSIVE WalkGtsIds(_, _)
WalkGtsIds(node, current_path) ==
    CASE node.t = "arr" ->
           UNION {WalkGtsIds(node.v[i], current_path \o "[" \o ToString(i - 1) \o "]") :
                    i \in DOMAIN node.v}
      [] node.t = "obj" ->
           UNION {WalkGtsIds(node.v[k], PathJoin(current_path, k)) : k \in DOMAIN node.v}
      [] OTHER -> FoundAt(node, IF current_path # "" THEN current_path ELSE "root")

ExtractGtsIdsWithPaths(content) == WalkGtsIds(content, "")

\* the fields __init__ leaves, given the identifiers it settled on
EntityFields(content, is_schema, gts_id, schemaId, entity_field, schema_field) ==
    [content   |-> content,
     is_schema |-> is_schema \/ (content # None /\ IsJsonSchemaEntity(content)),
     gts_id    |-> gts_id,
     schemaId  |-> schemaId,
     selected_entity_field    |-> entity_field,
     selected_schema_id_field |-> schema_field,
     gts_refs  |-> ExtractGtsIdsWithPaths(content)]

\* lines 122-125: GtsID(idv) if idv and GtsID.is_valid(idv) else None
ConfiguredEntity(content, is_schema, own, schema) ==
    EntityFields(content, is_schema,
                 IF own.id # "" /\ IsValidGtsID(own.id) THEN GtsID(own.id).id ELSE "",
                 schema.id, own.field, schema.field)

(* JsonEntity.__init__ for an entity that comes from no file.  cfg is None *)
(* or a GtsConfig; gts_id and schemaId are the strings, "" for None.       *)
JsonEntity(content, cfg, gts_id, is_schema, schemaId) ==
    IF cfg = None THEN EntityFields(content, is_schema, gts_id, schemaId, "", "")
    ELSE ConfiguredEntity(content, is_schema, CalcJsonEntityId(content, cfg),
                          CalcJsonSchemaId(content, cfg))

-----------------------------------------------------------------------------
(* store.py.  by_id is the dict GtsStore._by_id: a function from the keys  *)
(* it holds to entities.  reader is GtsStore._reader: None, or a record    *)
(* [items, lookup] of the entities its iteration yields and of the         *)
(* entities its read_by_id can find.                                       *)

EmptyStore == [k \in {} |-> None]

\* by[key] = entity
StorePut(by, key, entity) == (key :> entity) @@ by

\* GtsReader.read_by_id: what a call may return for this id
ReadById(rdr, entity_id) == {None} \cup {e \in rdr.lookup : e.gts_id = entity_id}

\* a get that returns what the reader found without keeping it
GetOutcomeUncached(by, rdr, entity_id, resp) ==
    IF entity_id \in DOMAIN by
    THEN [result |-> by[entity_id], by_id |-> by, reader_calls |-> 0]
    ELSE [result |-> IF rdr # None THEN resp ELSE None, by_id |-> by,
          reader_calls |-> IF rdr # None THEN 1 ELSE 0]

\* a get that remembers a miss: it keeps an entity with no content under the id
GetOutcomeNegative(by, rdr, entity_id, resp) ==
    IF entity_id \in DOMAIN by
    THEN [result |-> by[entity_id], by_id |-> by, reader_calls |-> 0]
    ELSE IF rdr # None /\ resp # None
         THEN [result |-> resp, by_id |-> StorePut(by, entity_id, resp), reader_calls |-> 1]
         ELSE [result |-> None,
               by_id |-> StorePut(by, entity_id, JsonEntity(None, None, entity_id, FALSE, "")),
               reader_calls |-> IF rdr # None THEN 1 ELSE 0]

(* GtsStore.get, given what read_by_id returns if it is called.  The value *)
(* is [result, by_id, reader_calls]: the entity returned (None when not    *)
(* found), the dict afterwards, how often the reader was asked.            *)
GetOutcome(by, rdr, entity_id, resp) ==
    IF entity_id \in DOMAIN by
    THEN [result |-> by[entity_id], by_id |-> by, reader_calls |-> 0]
    ELSE IF rdr # None
         THEN IF resp # None
              THEN [result |-> resp, by_id |-> StorePut(by, entity_id, resp), reader_calls |-> 1]
              ELSE [result |-> None, by_id |-> by, reader_calls |-> 1]
         ELSE [result |-> None, by_id |-> by, reader_calls |-> 0]

\* the responses a get may see: the reader is asked only on a miss
Responses(by, rdr, entity_id) ==
    IF entity_id \notin DOMAIN by /\ rdr # None THEN ReadById(rdr, entity_id) ELSE {None}

\* a register that keeps the entity an identifier already has
RegisterWriteOnce(by, entity) ==
    IF entity.gts_id \in DOMAIN by THEN by ELSE StorePut(by, entity.gts_id, entity)

\* GtsStore.register, lines 87-89: the dict afterwards
RegisterWrite(by, entity) == StorePut(by, entity.gts_id, entity)

\* GtsStore.register_schema, lines 100-105: the dict afterwards
RegisterSchemaWrite(by, type_id, schema) ==
    StorePut(by, type_id, JsonEntity(schema, None, GtsID(type_id).id, TRUE, ""))

\* a comparison that looks at the required lists alone
MinorCompatibleByRequired(old_entity, new_entity) ==
    [raised |-> "",
     result |-> DictGet(IF IsDict(old_entity.content) THEN old_entity.content ELSE EmptyObj,
                        "required", JArr(<<>>))
                = DictGet(IF IsDict(new_entity.content) THEN new_entity.content ELSE EmptyObj,
                          "required", JArr(<<>>))]

\* GtsStore.is_minor_compatible, lines 198-218, on the two entities found.
\* The value is "AttributeError" when .keys() is called on a properties
\* value that is no dict.
MinorCompatible(old_entity, new_entity) ==
    LET old_schema == IF IsDict(old_entity.content) THEN old_entity.content ELSE EmptyObj
        new_schema == IF IsDict(new_entity.content) THEN new_entity.content ELSE EmptyObj
        old_props  == DictGet(old_schema, "properties", EmptyObj)
        new_props  == DictGet(new_schema, "properties", EmptyObj)
        old_req    == LET r == DictGet(old_schema, "required", JArr(<<>>))
                      IN {r.v[i] : i \in DOMAIN r.v}
        new_req    == LET r == DictGet(new_schema, "required", JArr(<<>>))
                      IN {r.v[i] : i \in DOMAIN r.v}
        common_keys == (DOMAIN old_props.v) \cap (DOMAIN new_props.v)
    IN IF old_req # new_req THEN [raised |-> "", result |-> FALSE]
       ELSE IF ~IsDict(old_props) \/ ~IsDict(new_props)
            THEN [raised |-> "AttributeError", result |-> FALSE]
       ELSE [raised |-> "",
             result |-> \A k \in common_keys : old_props.v[k] = new_props.v[k]]

\* "http://json-schema.org" or "https://json-schema.org" starts the string
IsJsonSchemaOrg(s) == StartsWithAny(s, {"http://json-schema.org", "https://json-schema.org"})

(* gts2node of GtsStore.build_schema_graph, lines 223-252, for the id the  *)
(* traversal starts from, given the entity get() returned.  The two        *)
(* recursive calls pass `seen`, a name that nothing binds (the set is      *)
(* seen_gts_ids): evaluating it raises NameError before the call is made.  *)
(* The value is [raised, node].                                            *)
Gts2Node(gts_id, seen_gts_ids, entity) ==
    LET ret    == [id |-> gts_id]
        Done(node) == [raised |-> "", node |-> node]
        NameError  == [raised |-> "NameError", node |-> None]
    IN IF gts_id \in seen_gts_ids THEN Done(ret)
       ELSE IF entity = None
            THEN Done([id |-> gts_id, errors |-> <<"Entity not found">>])
       ELSE LET followed == {r \in entity.gts_refs :
                               r.id # gts_id /\ ~IsJsonSchemaOrg(r.id)}
            IN IF followed # {} THEN NameError
               ELSE IF entity.schemaId # ""
                    THEN IF ~IsJsonSchemaOrg(entity.schemaId) THEN NameError
                         ELSE Done(ret)
               ELSE Done([id |-> gts_id, errors |-> <<"Schema not recognized">>])

-----------------------------------------------------------------------------
(* The documents, entities and readers the store is run on *)

JSON_SCHEMA_URL == "http://json-schema.org/draft-07/schema#"

\* two instances that reference each other at path ref
DocA    == Obj2("id", JStr("gts.a"), "ref", JStr("gts.b"))
DocB    == Obj2("id", JStr("gts.b"), "ref", JStr("gts.a"))
\* another document with the identifier of DocA, with no reference
DocA2   == Obj2("id", JStr("gts.a"), "name", JStr("x"))
\* a document with no identifier
DocAnon == Obj1("name", JStr("x"))
\* a JSON Schema document with its own identifier
DocS    == Obj4("$id", JStr("gts.s~"), "$schema", JStr(JSON_SCHEMA_URL),
                "properties", Obj1("a", PInt), "required", StrList(<<"a">>))

\* a JSON Schema document whose identifier has no "~"
DocSchemaB == Obj2("$id", JStr("gts.b"), "$schema", JStr(JSON_SCHEMA_URL))

Docs == {DocA, DocB, DocA2, DocAnon, DocS, DocSchemaB}

\* the schemas register_schema is called with
SchemaBase     == Obj2("properties", Obj1("a", PInt), "required", StrList(<<"a">>))
\* SchemaBase with an optional property more
SchemaOptional == Obj2("properties", Obj2("a", PInt, "b", PInt), "required", StrList(<<"a">>))
\* SchemaBase with the definition of a changed
SchemaChanged  == Obj2("properties", Obj1("a", PIntDef), "required", StrList(<<"a">>))
\* SchemaOptional with b required
SchemaRequired == Obj2("properties", Obj2("a", PInt, "b", PInt),
                       "required", StrList(<<"b", "a">>))
\* SchemaBase with a top-level keyword more
SchemaClosed   == Obj3("properties", Obj1("a", PInt), "required", StrList(<<"a">>),
                       "additionalProperties", JBool(FALSE))
Schemas == {SchemaOptional, SchemaChanged, SchemaRequired, SchemaClosed}

\* (type_id, schema) pairs register_schema is called with
SchemaCalls ==
    ({"gts.s~"} \X {SchemaBase})
    \cup ({"gts.t~"} \X Schemas)
    \cup ({"gts.a", "x", "~"} \X {SchemaBase})

\* (old_schema_id, new_schema_id) pairs is_minor_compatible is called with
CompatCalls == {"gts.s~", "gts.b", "gts.zz"} \X {"gts.t~", "gts.s~", "gts.a"}

\* entities built from a document with the default configuration, as
\* GtsOps.add_entity and the file reader build them
Extracted(doc) == JsonEntity(doc, DEFAULT_GTS_CONFIG, "", FALSE, "")

\* an entity built with an explicit identifier around a content that is no object
ListEntity == JsonEntity(JArr(<<JStr("gts.a")>>), None, "gts.b", FALSE, "")

Entities == {Extracted(d) : d \in Docs} \cup {ListEntity}

\* the identifiers the operations are called with
CallIds == {"gts.a", "gts.b", "gts.s~", "gts.t~", "gts.zz"}

\* the keys the dict can hold: register_schema stores under type_id as it is given
StoreKeys == CallIds \cup {" gts.s~"}

Readers ==
    {None,
     \* like GtsFileReader: iterates, and read_by_id finds nothing
     [items |-> {Extracted(d) : d \in {DocA, DocA2, DocS}}, lookup |-> {}],
     \* iterates nothing and finds entities by id
     [items |-> {}, lookup |-> {Extracted(d) : d \in {DocA2, DocB}}]}

(* GtsStore.__init__ and _populate_from_reader: the dicts the drain may    *)
(* leave.  The iteration order is the reader's; of the entities with one   *)
(* identifier the last one yielded stays.                                  *)
PopulateFromReader(rdr) ==
    IF rdr = None THEN {EmptyStore}
    ELSE LET kept == {e \in rdr.items : e.gts_id # ""}
             ids  == {e.gts_id : e \in kept}
         IN {f \in [ids -> kept] : \A k \in ids : f[k].gts_id = k}

NoOp == [op |-> "init"]

-----------------------------------------------------------------------------
(* The store as a state machine.  lastOp records the last call and what it *)
(* returned or raised; lastReg is history: for each key, the entity the    *)
(* last register or register_schema stored under it (None before any);     *)
(* replacedKeys is history: the keys under which a register has replaced    *)
(* the entity of an earlier registration by another one.  itemsCall is     *)
(* history: whether items() has returned, and the pairs the dict held when *)
(* it did.  getCall is the get() of a second thread: the statement it is   *)
(* at, its entity_id and the entity the reader gave it.                    *)

\* no items() has returned yet
NoItems == [held |-> FALSE, pairs |-> {}]

\* no get() is between two of its statements
NoGet == [pc |-> "idle", id |-> "", entity |-> None]

CallsIdle ==
    /\ itemsCall = NoItems
    /\ getCall = NoGet

CastIdle ==
    /\ castPc = "idle"
    /\ castInput = [ids |-> <<"", "">>, instance |-> None, schema |-> None]
    /\ castXform = NoXform
    /\ castResult = NoResult
    /\ recastXform = NoXform
    /\ recastResult = NoResult

Init ==
    /\ reader \in Readers
    /\ by_id \in PopulateFromReader(reader)
    /\ lastOp = NoOp
    /\ lastReg = [k \in StoreKeys |-> None]
    /\ replacedKeys = {}
    /\ CastIdle
    /\ CallsIdle

\* GtsStore.register
Register(entity) ==
    /\ IF entity.gts_id = ""
       THEN /\ lastOp' = [op |-> "register", entity |-> entity, raised |-> "ValueError",
                          replaced |-> None]
            /\ UNCHANGED <<by_id, lastReg, replacedKeys>>
       ELSE /\ by_id' = RegisterWrite(by_id, entity)
            /\ lastReg' = [lastReg EXCEPT ![entity.gts_id] = entity]
            /\ replacedKeys' = IF lastReg[entity.gts_id] \notin {None, entity}
                               THEN replacedKeys \cup {entity.gts_id} ELSE replacedKeys
            /\ lastOp' = [op |-> "register", entity |-> entity, raised |-> "",
                          replaced |-> lastReg[entity.gts_id]]
    /\ UNCHANGED <<reader, castVars, callVars>>

\* a register_schema that tests the parse alone
RegisterSchemaRaisesParse(type_id) ==
    IF ~GtsID(type_id).valid THEN "GtsInvalidId" ELSE ""

\* what register_schema raises for this type_id, "" when nothing
RegisterSchemaRaises(type_id) ==
    IF ~EndsWith(Chars(type_id), <<"~">>) THEN "ValueError"
    ELSE IF ~GtsID(type_id).valid THEN "GtsInvalidId"
    ELSE ""

\* GtsStore.register_schema
RegisterSchema(type_id, schema) ==
    /\ IF RegisterSchemaRaises(type_id) # ""
       THEN /\ lastOp' = [op |-> "register_schema", type_id |-> type_id, schema |-> schema,
                          raised |-> RegisterSchemaRaises(type_id)]
            /\ UNCHANGED <<by_id, lastReg, replacedKeys>>
       ELSE /\ by_id' = RegisterSchemaWrite(by_id, type_id, schema)
            /\ lastReg' = [lastReg EXCEPT ![type_id] = by_id'[type_id]]
            /\ UNCHANGED replacedKeys
            /\ lastOp' = [op |-> "register_schema", type_id |-> type_id, schema |-> schema,
                          raised |-> ""]
    /\ UNCHANGED <<reader, castVars, callVars>>

\* GtsStore.get
Get(entity_id) ==
    \E resp \in Responses(by_id, reader, entity_id) :
        LET got == GetOutcome(by_id, reader, entity_id, resp)
        IN /\ by_id' = got.by_id
           /\ lastOp' = [op |-> "get", id |-> entity_id, result |-> got.result,
                         reader_calls |-> got.reader_calls]
           /\ UNCHANGED <<reader, lastReg, replacedKeys, castVars, callVars>>

\* GtsStore.is_minor_compatible
IsMinorCompatible(old_schema_id, new_schema_id) ==
    \E r1 \in Responses(by_id, reader, old_schema_id) :
        LET g1 == GetOutcome(by_id, reader, old_schema_id, r1)
        IN \E r2 \in Responses(g1.by_id, reader, new_schema_id) :
             LET g2  == GetOutcome(g1.by_id, reader, new_schema_id, r2)
                 out == IF g1.result = None \/ g2.result = None
                        THEN [raised |-> "", result |-> FALSE]
                        ELSE MinorCompatible(g1.result, g2.result)
             IN /\ by_id' = g2.by_id
                /\ lastOp' = [op |-> "is_minor_compatible",
                              old |-> old_schema_id, new |-> new_schema_id,
                              old_entity |-> g1.result, new_entity |-> g2.result,
                              raised |-> out.raised, result |-> out.result]
                /\ UNCHANGED <<reader, lastReg, replacedKeys, castVars, callVars>>

\* GtsStore.build_schema_graph
BuildSchemaGraph(gts_id) ==
    \E resp \in Responses(by_id, reader, gts_id) :
        LET got == GetOutcome(by_id, reader, gts_id, resp)
            out == Gts2Node(gts_id, {}, got.result)
        IN /\ by_id' = got.by_id
           /\ lastOp' = [op |-> "build_schema_graph", id |-> gts_id,
                         raised |-> out.raised, node |-> out.node]
           /\ UNCHANGED <<reader, lastReg, replacedKeys, castVars, callVars>>

Next ==
    \/ \E e \in Entities : Register(e)
    \/ \E c \in SchemaCalls : RegisterSchema(c[1], c[2])
    \/ \E id \in CallIds : Get(id)
    \/ \E c \in CompatCalls : IsMinorCompatible(c[1], c[2])
    \/ \E id \in CallIds : BuildSchemaGraph(id)

Spec == Init /\ [][Next]_vars

-----------------------------------------------------------------------------
(* The cast engine run on one instance and one target schema, and then on  *)
(* its own result.  castXform and recastXform record the transformation    *)
(* (the locals casted, added, removed of cast()).                          *)

InitCast ==
    /\ by_id = EmptyStore
    /\ reader = None
    /\ lastOp = NoOp
    /\ lastReg = [k \in StoreKeys |-> None]
    /\ replacedKeys = {}
    /\ castPc = "start"
    /\ castInput \in [ids : CastIds, instance : Instances, schema : TargetSchemas]
    /\ castXform = NoXform
    /\ castResult = NoResult
    /\ recastXform = NoXform
    /\ recastResult = NoResult
    /\ CallsIdle

\* JsonEntityCastResult.cast on the input
Cast ==
    /\ castPc = "start"
    /\ \E r \in CastResults(castInput.ids[1], castInput.ids[2],
                            castInput.instance, castInput.schema) :
          castResult' = r
    /\ castXform' = CastXform(castInput.instance, castInput.schema)
    /\ castPc' = "cast"
    /\ UNCHANGED <<storeVars, callVars, castInput, recastXform, recastResult>>

\* JsonEntityCastResult.cast on the document a successful cast returned
CastAgain ==
    /\ castPc = "cast"
    /\ castResult.fully_compatible
    /\ \E r \in CastResults(castInput.ids[1], castInput.ids[2],
                            castResult.casted_instance, castInput.schema) :
          recastResult' = r
    /\ recastXform' = CastXform(castResult.casted_instance, castInput.schema)
    /\ castPc' = "recast"
    /\ UNCHANGED <<storeVars, callVars, castInput, castXform, castResult>>

NextCast == Cast \/ CastAgain

SpecCast == InitCast /\ [][NextCast]_vars

-----------------------------------------------------------------------------
(* Properties of the store *)

\* C1: get(id) after register(e) returns e, and after a later register(e2)
\* with the same id it returns e2 and not e: every key that a register has
\* written holds the entity of the last register under it, which is what a
\* get of that key returns; the dict holds one entity per identifier.
C1_RegisterThenGet ==
    /\ \A k \in StoreKeys : lastReg[k] # None => k \in DOMAIN by_id /\ by_id[k] = lastReg[k]
    /\ lastOp.op = "get" /\ lastReg[lastOp.id] # None => lastOp.result = lastReg[lastOp.id]
    /\ lastOp.op = "register" /\ lastOp.raised = ""
         => /\ by_id[lastOp.entity.gts_id] = lastOp.entity
            /\ lastOp.replaced # lastOp.entity => by_id[lastOp.entity.gts_id] # lastOp.replaced

\* a get has returned the entity of a register that replaced another one
C1_Witness ==
    /\ lastOp.op = "get"
    /\ lastReg[lastOp.id] # None
    /\ lastOp.result = lastReg[lastOp.id]
    /\ lastOp.id \in replacedKeys

\* C2: a get of a key in the dict returns the cached entity and does not ask
\* the reader; a miss with a reader asks it once and caches what it finds
\* under the id; a miss that finds nothing (or has no reader) returns None
\* and leaves the dict as it is.  No step takes a key out of the dict, so a
\* get after a cached one is a hit.
C2_GetCaches ==
    [][/\ DOMAIN by_id \subseteq DOMAIN by_id'
       /\ lastOp'.op = "get" =>
            IF lastOp'.id \in DOMAIN by_id
            THEN /\ lastOp'.result = by_id[lastOp'.id]
                 /\ lastOp'.reader_calls = 0
                 /\ by_id' = by_id
            ELSE IF reader # None
                 THEN /\ lastOp'.reader_calls = 1
                      /\ IF lastOp'.result # None
                         THEN /\ DOMAIN by_id' = DOMAIN by_id \cup {lastOp'.id}
                              /\ by_id'[lastOp'.id] = lastOp'.result
                              /\ \A k \in DOMAIN by_id : by_id'[k] = by_id[k]
                         ELSE by_id' = by_id
                 ELSE /\ lastOp'.result = None
                      /\ lastOp'.reader_calls = 0
                      /\ by_id' = by_id]_vars

\* a get has missed, asked the reader once and cached the entity it found
C2_Witness ==
    /\ lastOp.op = "get"
    /\ lastOp.reader_calls = 1
    /\ lastOp.result # None
    /\ by_id[lastOp.id] = lastOp.result

\* C3: build_schema_graph(id) returns a graph node for every starting id and
\* every set of registered entities: the call raises nothing.
C3_GraphReturns == lastOp.op = "build_schema_graph" => lastOp.raised = ""

\* C4: for two registered entities A and B that reference each other at path
\* ref, the graph of A is node A whose refs.ref is node B whose refs.ref is
\* the stub {id: A}.
C4_CycleGraph ==
    /\ lastOp.op = "build_schema_graph" /\ lastOp.id = "gts.a"
    /\ "gts.a" \in DOMAIN by_id /\ by_id["gts.a"].content = DocA
    /\ "gts.b" \in DOMAIN by_id /\ by_id["gts.b"].content = DocB
    => /\ lastOp.raised = ""
       /\ lastOp.node.id = "gts.a"
       /\ lastOp.node.refs = [ref |-> [id |-> "gts.b", refs |-> [ref |-> [id |-> "gts.a"]]]]

\* set(schema.get("required", [])) of a content, {} for a content that is no object
C10_Required(content) ==
    IF IsDict(content) /\ "required" \in DOMAIN content.v
    THEN {content.v["required"].v[i] : i \in DOMAIN content.v["required"].v}
    ELSE {}

\* the properties of a content, as a function from the names
C10_Properties(content) ==
    IF IsDict(content) /\ "properties" \in DOMAIN content.v
    THEN content.v["properties"].v
    ELSE EmptyMap

-----------------------------------------------------------------------------
(* Properties of the cast engine.  They are stated on the input of the     *)
(* cast (castInput), the transformation it ran (castXform) and the result   *)
(* it returned (castResult).                                                *)

\* the schema whose object keywords the transformation reads
TargetOf == EffectiveObjectSchema(castInput.schema)

\* additionalProperties of the schema is false
IsClosed(schema) == DictGet(schema, "additionalProperties", JBool(TRUE)) = JBool(FALSE)

\* the property schema of p says "type": "object"
IsObjectProp(schema, p) ==
    /\ p \in DOMAIN TargetProps(schema).v
    /\ IsDict(TargetProps(schema).v[p])
    /\ DictGet(TargetProps(schema).v[p], "type", None) = JStr("object")

\* the default of the property p
DefaultOf(schema, p) == TargetProps(schema).v[p].v["default"]

\* the value the transformation finds under p after its defaults are in:
\* the value of the instance, else the default
SourceOf(obj, schema, p) == IF p \in DOMAIN obj.v THEN obj.v[p] ELSE DefaultOf(schema, p)

\* the properties of type object whose value is an object: the nested level
NestedNames(obj, schema) ==
    {p \in DOMAIN TargetProps(schema).v :
        /\ IsObjectProp(schema, p)
        /\ p \in DOMAIN obj.v \/ HasDefault(TargetProps(schema).v[p])
        /\ IsDict(SourceOf(obj, schema, p))}

\* the schema the nested level under p is cast to
NestedSchema(schema, p) == EffectiveObjectSchema(TargetProps(schema).v[p])

\* the names of the required list that the object lacks
AbsentRequired(obj, schema) == RequiredSet(schema) \ DOMAIN obj.v

\* of those, the ones whose property schema has no default
AbsentNoDefault(obj, schema) ==
    {p \in AbsentRequired(obj, schema) : ~HasDefault(DictGet(TargetProps(schema), p, EmptyObj))}

\* the cast has failed: no document, not compatible
CastFailed ==
    /\ ~castXform.ok
    /\ ~castResult.fully_compatible
    /\ castResult.casted_instance = None

\* C5: fully_compatible is true exactly when casted_instance is not None;
\* when the validator accepts the transformed instance, casted_instance is
\* that instance and there are no reasons; when it rejects it,
\* fully_compatible is false, casted_instance is None and the one reason is
\* a message of the validator.
C5_ResultShape ==
    castPc \in {"cast", "recast"} =>
       /\ castResult.fully_compatible <=> castResult.casted_instance # None
       /\ castXform.ok =>
            IF JsErrors(castXform.result, castInput.schema) = {}
            THEN /\ castResult.fully_compatible
                 /\ castResult.casted_instance = castXform.result
                 /\ castResult.incompatibility_reasons = <<>>
            ELSE /\ ~castResult.fully_compatible
                 /\ castResult.casted_instance = None
                 /\ Len(castResult.incompatibility_reasons) = 1
                 /\ castResult.incompatibility_reasons[1]
                      \in JsErrors(castXform.result, castInput.schema)

\* the validator has rejected a transformed instance
C5_Witness ==
    /\ castPc = "cast"
    /\ castXform.ok
    /\ JsErrors(castXform.result, castInput.schema) # {}
    /\ ~castResult.fully_compatible
    /\ castResult.casted_instance = None

\* at one level: every absent required name is in res with its default and
\* its path is in added_properties.  With plain, res holds the default as
\* it is; without, a default that is an object under a property of type
\* object is an object in res (the nested level transforms it).
RequiredFilled(obj, res, schema, path, plain) ==
    \A p \in AbsentRequired(obj, schema) :
        /\ PathJoin(path, p) \in castResult.added_properties
        /\ p \in DOMAIN res.v
        /\ IF plain \/ ~(IsObjectProp(schema, p) /\ IsDict(DefaultOf(schema, p)))
           THEN res.v[p] = DefaultOf(schema, p)
           ELSE IsDict(res.v[p])

NestedNoDefault ==
    UNION {{PathJoin(p, q) : q \in AbsentNoDefault(SourceOf(castInput.instance, TargetOf, p),
                                                   NestedSchema(TargetOf, p))} :
             p \in NestedNames(castInput.instance, TargetOf)}

PruneRule(obj, res, schema, path) ==
    IF IsClosed(schema)
    THEN /\ DOMAIN res.v \subseteq DOMAIN TargetProps(schema).v
         /\ \A k \in (DOMAIN obj.v) \ (DOMAIN TargetProps(schema).v) :
               PathJoin(path, k) \in castResult.removed_properties
    ELSE /\ DOMAIN obj.v \subseteq DOMAIN res.v
         /\ \A k \in DOMAIN obj.v : PathJoin(path, k) \notin castResult.removed_properties

\* C7: when additionalProperties of the target is false the keys of the
\* transformed object are declared in properties and the path of every
\* deleted key is in removed_properties; when it is anything else no key is
\* deleted and removed_properties gets no entry of that level.  Stated for
\* the top level and the level below it.
C7_Pruning ==
    castPc = "cast" /\ IsDict(castInput.instance) /\ castXform.ok =>
       /\ PruneRule(castInput.instance, castXform.result, TargetOf, "")
       /\ \A p \in NestedNames(castInput.instance, TargetOf) :
             PruneRule(SourceOf(castInput.instance, TargetOf, p), castXform.result.v[p],
                       NestedSchema(TargetOf, p), p)

\* a key of the top level and a key of the nested level have been deleted
C7_Witness ==
    /\ castPc = "cast"
    /\ IsDict(castInput.instance)
    /\ castXform.ok
    /\ IsClosed(TargetOf)
    /\ "z" \in DOMAIN castInput.instance.v
    /\ "z" \notin DOMAIN castXform.result.v
    /\ {"z", "a.y"} \subseteq castResult.removed_properties

\* C8: a cast of a content that is no JSON object is rejected: the result
\* is not fully compatible and carries no casted instance.
C8_NonObjectRejected ==
    castPc = "cast" /\ ~IsDict(castInput.instance) =>
       /\ ~castResult.fully_compatible
       /\ castResult.casted_instance = None

\* res is doc with entries more: every entry of doc is in res, objects and
\* list items compared the same way
RECURSIVE Extends(_, _)
Extends(res, doc) ==
    CASE doc.t = "obj" -> /\ res.t = "obj"
                          /\ DOMAIN doc.v \subseteq DOMAIN res.v
                          /\ \A k \in DOMAIN doc.v : Extends(res.v[k], doc.v[k])
      [] doc.t = "arr" -> /\ res.t = "arr"
                          /\ Len(res.v) = Len(doc.v)
                          /\ \A i \in DOMAIN doc.v : Extends(res.v[i], doc.v[i])
      [] OTHER -> res = doc

\* the absent names that are not required and have a default
AbsentOptionalDefaults(obj, schema) ==
    {p \in DOMAIN TargetProps(schema).v :
        /\ p \notin DOMAIN obj.v
        /\ p \notin RequiredSet(schema)
        /\ HasDefault(TargetProps(schema).v[p])}

\* the instance is an object that the validator accepts against the target
Conforms == IsDict(castInput.instance) /\ JsErrors(castInput.instance, castInput.schema) = {}

-----------------------------------------------------------------------------
(* More properties of the store *)

\* the top-level keywords of a schema other than properties and required
OtherKeywords(content) ==
    IF IsDict(content)
    THEN [k \in (DOMAIN content.v) \ {"properties", "required"} |-> content.v[k]]
    ELSE EmptyMap

\* C11: two schemas that differ in a top-level keyword other than properties
\* and required are not minor-compatible: is_minor_compatible returns false
\* for them, also when their required sets and shared property definitions
\* are equal.
C11_KeywordsBreak ==
    /\ lastOp.op = "is_minor_compatible"
    /\ lastOp.old_entity # None /\ lastOp.new_entity # None
    /\ lastOp.old_entity.is_schema /\ lastOp.new_entity.is_schema
    /\ OtherKeywords(lastOp.old_entity.content) # OtherKeywords(lastOp.new_entity.content)
    => lastOp.result = FALSE

-----------------------------------------------------------------------------
(* gts.py: wildcards, and the identifier operations run on their own.  The *)
(* strings here are sequences of characters.                               *)

\* "*" in p, p.count("*")
StarCount(cs) == Cardinality({i \in DOMAIN cs : cs[i] = "*"})

\* the exception GtsID.__init__ raises for this cause: the segment's error
\* is no GtsInvalidId
ParseErrorClass(cause) ==
    IF cause \in {"Does not start with 'gts.'", "Too long", "empty segment"}
    THEN "GtsInvalidId" ELSE "GtsInvalidSegment"

\* super().__init__(p), lines 219-222: GtsInvalidId becomes GtsInvalidWildcard
WildcardParsed(p, g) ==
    IF g.valid THEN [raised |-> "", id |-> g.id]
    ELSE [raised |-> IF ParseErrorClass(g.cause) = "GtsInvalidId"
                     THEN "GtsInvalidWildcard" ELSE "GtsInvalidSegment",
          id |-> <<>>]

\* GtsWildcard.__init__ on the stripped pattern
WildcardChecked(p) ==
    IF ~StartsWith(p, GTS_PREFIX) THEN [raised |-> "GtsInvalidWildcard", id |-> <<>>]
    ELSE IF StarCount(p) > 0 /\ ~EndsWith(p, <<".", "*">>)
         THEN [raised |-> "GtsInvalidWildcard", id |-> <<>>]
    ELSE WildcardParsed(p, ParseGtsID(p))

\* GtsWildcard(pattern): [raised, id], raised "" when the pattern is accepted
GtsWildcard(pattern) == WildcardChecked(Strip(pattern))

\* GtsID.wildcard_match on self.id and pattern.id
WildcardMatches(candidate, p) ==
    IF StarCount(p) = 0 THEN Strip(p) = Strip(candidate)
    ELSE IF StarCount(p) > 1 \/ ~EndsWith(p, <<"*">>) THEN FALSE
    ELSE StartsWith(candidate, SubSeq(p, 1, Len(p) - 1))

\* GtsOps.wildcard_match on what the two constructors gave
WildcardOutcome(c, w) ==
    IF ~c.valid THEN [match |-> FALSE, error |-> ParseErrorClass(c.cause)]
    ELSE IF w.raised # "" THEN [match |-> FALSE, error |-> w.raised]
    ELSE [match |-> WildcardMatches(c.id, w.id), error |-> ""]

\* "gts." + "".join(s.segment for s in segments)
RECURSIVE JoinSegments(_)
JoinSegments(segs) ==
    IF segs = <<>> THEN <<>>
    ELSE JoinSegments(SubSeq(segs, 1, Len(segs) - 1)) \o segs[Len(segs)].segment

\* the tokens the identifiers of the runs are made of
IdTokens == {<<"a">>, <<"b">>, <<"*">>, <<>>, <<" ", "a">>}

\* a segment of one token or of two
IdBodies == IdTokens \cup {t \o <<".">> \o u : t \in IdTokens, u \in IdTokens}

IdPrefixes == {GTS_PREFIX, <<" ">> \o GTS_PREFIX, <<"x", ".">>}

\* nothing, a "~", or a "~" and a second segment
IdTails == {<<>>, <<"~">>} \cup {<<"~">> \o b : b \in IdBodies}

\* an identifier one character longer than GTS_MAX_LEN
LongId == GTS_PREFIX \o [i \in 1..(GTS_MAX_LEN - 3) |-> "a"]

\* the strings GtsID and GtsID.is_valid are called with
IdInputs == {p \o b \o t : p \in IdPrefixes, b \in IdBodies, t \in IdTails} \cup {LongId}

\* the candidates and patterns wildcard_match is called with
MatchCandidates == {GTS_PREFIX \o b \o t : b \in IdBodies, t \in {<<>>, <<"~">>}}
MatchPatterns ==
    {p \o b : p \in IdPrefixes, b \in IdBodies}
    \cup {GTS_PREFIX \o <<"a", "~">> \o b : b \in IdBodies}

InitId ==
    /\ by_id = EmptyStore
    /\ reader = None
    /\ lastOp = NoOp
    /\ lastReg = [k \in StoreKeys |-> None]
    /\ replacedKeys = {}
    /\ CastIdle
    /\ CallsIdle

\* GtsID(s) and GtsID.is_valid(s); a run makes one call
ParseId(s) ==
    /\ lastOp = NoOp
    /\ lastOp' = [op |-> "parse", input |-> s, parsed |-> ParseGtsID(s),
                  is_valid |-> IsValidChars(s)]
    /\ UNCHANGED <<by_id, reader, lastReg, replacedKeys, castVars, callVars>>

\* GtsOps.wildcard_match(candidate, pattern)
WildcardMatch(candidate, pattern) ==
    /\ lastOp = NoOp
    /\ lastOp' = [op |-> "wildcard_match", candidate |-> candidate, pattern |-> pattern,
                  wildcard |-> GtsWildcard(pattern),
                  out |-> WildcardOutcome(ParseGtsID(candidate), GtsWildcard(pattern))]
    /\ UNCHANGED <<by_id, reader, lastReg, replacedKeys, castVars, callVars>>

NextId ==
    \/ \E s \in IdInputs : ParseId(s)
    \/ \E c \in MatchCandidates : \E p \in MatchPatterns : WildcardMatch(c, p)

SpecId == InitId /\ [][NextId]_vars

-----------------------------------------------------------------------------
(* Properties of identifiers and wildcards *)

\* the characters of p before its i-th "*" from the left (first) or from the right
BeforeStar(p, first) ==
    LET stars == {i \in DOMAIN p : p[i] = "*"}
        at    == IF first THEN CHOOSE i \in stars : \A j \in stars : i <= j
                          ELSE CHOOSE i \in stars : \A j \in stars : j <= i
    IN SubSeq(p, 1, at - 1)

\* C12: for a valid candidate x and a pattern p that the wildcard constructor
\* accepts, wildcard_match is true if and only if x starts with the part of
\* p before the "*" when p has a "*", and if and only if x equals p when it
\* has none.  The part before the "*" is taken up to the first "*" or up to
\* the last one, whichever makes the law hold.
C12_WildcardLaw ==
    lastOp.op = "wildcard_match" /\ lastOp.out.error = "" =>
       LET x == Strip(lastOp.candidate)
           p == lastOp.wildcard.id
       IN IF StarCount(p) = 0
          THEN lastOp.out.match <=> x = p
          ELSE \/ lastOp.out.match <=> StartsWith(x, BeforeStar(p, TRUE))
               \/ lastOp.out.match <=> StartsWith(x, BeforeStar(p, FALSE))

\* the last character of p is its one "*" and a "." or a "~" stands before it
OneFinalStar(p) ==
    /\ StarCount(p) = 1
    /\ EndsWith(p, <<"*">>)
    /\ Len(p) >= 2 /\ p[Len(p) - 1] \in {".", "~"}

\* C13: a pattern with a "*" that is not its one "*", the final token of the
\* last segment, is rejected by the wildcard constructor, and wildcard_match
\* on it reports an error and no match result.
C13_WildcardRejected ==
    /\ lastOp.op = "wildcard_match"
    /\ ParseGtsID(lastOp.candidate).valid
    /\ StarCount(Strip(lastOp.pattern)) > 0
    /\ ~OneFinalStar(Strip(lastOp.pattern))
    => /\ lastOp.wildcard.raised # ""
       /\ lastOp.out.error # ""

\* C14: for every string GtsID accepts, "gts." and the segment strings of
\* the parsed segments, in order, give the canonical string self.id.
C14_RoundTrip ==
    lastOp.op = "parse" /\ lastOp.parsed.valid =>
       GTS_PREFIX \o JoinSegments(lastOp.parsed.gts_id_segments) = lastOp.parsed.id

\* nothing after "gts.", or nothing before a "~": rest is the string after "gts."
HasEmptySegment(rest) ==
    \/ rest = <<>>
    \/ \E i \in DOMAIN rest : rest[i] = "~" /\ (i = 1 \/ rest[i - 1] = "~")

\* C15: a string that does not start with "gts.", is longer than 1024
\* characters or has an empty segment is rejected by GtsID and is not
\* reported valid.  The string is taken without the blanks around it.
C15_ParseRejects ==
    /\ lastOp.op = "parse"
    /\ \/ ~StartsWith(Strip(lastOp.input), GTS_PREFIX)
       \/ Len(Strip(lastOp.input)) > GTS_MAX_LEN
       \/ HasEmptySegment(SubSeq(Strip(lastOp.input), Len(GTS_PREFIX) + 1,
                                 Len(Strip(lastOp.input))))
    => ~lastOp.parsed.valid /\ ~lastOp.is_valid

\* by2 is by with entity under key and nothing else changed
PutUnder(by, by2, key, entity) ==
    /\ DOMAIN by2 = (DOMAIN by) \cup {key}
    /\ by2[key] = entity
    /\ \A k \in (DOMAIN by) \ {key} : by2[k] = by[k]

C17_SchemaIdsEndWithTilde ==
    \A k \in DOMAIN by_id :
        by_id[k].is_schema => EndsWith(Chars(by_id[k].gts_id), <<"~">>)

-----------------------------------------------------------------------------
(* store.py: items().  The call returns self._by_id.items(), a view of the *)
(* dict: what the caller reads from the value is what the dict holds at    *)
(* the time of the read.                                                   *)

\* the (id, entity) pairs of a dict
PairsOf(by) == {<<k, by[k]>> : k \in DOMAIN by}

\* the pairs read from the value items() returned: those of the dict now
ItemsValue == PairsOf(by_id)

\* GtsStore.items; a run makes one call
Items ==
    /\ ~itemsCall.held
    /\ itemsCall' = [held |-> TRUE, pairs |-> PairsOf(by_id)]
    /\ lastOp' = [op |-> "items"]
    /\ UNCHANGED <<by_id, reader, lastReg, replacedKeys, castVars, getCall>>

\* the calls made around items()
ItemsEntities == {Extracted(d) : d \in {DocA, DocA2, DocB}}
ItemsSchemaCalls == {<<"gts.t~", SchemaBase>>, <<"gts.a", SchemaBase>>}
ItemsIds == {"gts.a", "gts.b"}

NextItems ==
    \/ Items
    \/ \E e \in ItemsEntities : Register(e)
    \/ \E c \in ItemsSchemaCalls : RegisterSchema(c[1], c[2])
    \/ \E id \in ItemsIds : Get(id)

SpecItems == Init /\ [][NextItems]_vars

\* C18: the value items() returned holds the pairs the dict held when it
\* returned, whatever register, register_schema or get has done since.
C18_ItemsSnapshot == itemsCall.held => ItemsValue = itemsCall.pairs

-----------------------------------------------------------------------------
(* store.py: get() called by a second thread while the first one calls     *)
(* register().  The methods take no lock, so the thread may be switched    *)
(* between the statements of get(): after the test of line 114, and while   *)
(* the reader works on line 119.  register() is the one dict store of line *)
(* 89.                                                                     *)

\* lines 114-118: the test of the dict; a hit returns, a miss goes to the reader
GetTest(entity_id) ==
    /\ getCall.pc = "idle"
    /\ IF entity_id \in DOMAIN by_id
       THEN /\ lastOp' = [op |-> "get", id |-> entity_id, result |-> by_id[entity_id],
                          reader_calls |-> 0]
            /\ UNCHANGED getCall
       ELSE IF reader = None
       THEN /\ lastOp' = [op |-> "get", id |-> entity_id, result |-> None, reader_calls |-> 0]
            /\ UNCHANGED getCall
       ELSE /\ getCall' = [pc |-> "reading", id |-> entity_id, entity |-> None]
            /\ UNCHANGED lastOp
    /\ UNCHANGED <<by_id, reader, lastReg, replacedKeys, castVars, itemsCall>>

\* lines 119-120 and 124: the reader answers
GetRead ==
    /\ getCall.pc = "reading"
    /\ \E resp \in ReadById(reader, getCall.id) :
          IF resp = None
          THEN /\ getCall' = NoGet
               /\ lastOp' = [op |-> "get", id |-> getCall.id, result |-> None,
                             reader_calls |-> 1]
          ELSE /\ getCall' = [getCall EXCEPT !.pc = "storing", !.entity = resp]
               /\ UNCHANGED lastOp
    /\ UNCHANGED <<by_id, reader, lastReg, replacedKeys, castVars, itemsCall>>

\* lines 121-122: the entity of the reader is stored and returned
GetStore ==
    /\ getCall.pc = "storing"
    /\ by_id' = StorePut(by_id, getCall.id, getCall.entity)
    /\ lastOp' = [op |-> "get", id |-> getCall.id, result |-> getCall.entity,
                  reader_calls |-> 1]
    /\ getCall' = NoGet
    /\ UNCHANGED <<reader, lastReg, replacedKeys, castVars, itemsCall>>

NextThreads ==
    \/ \E e \in Entities : Register(e)
    \/ \E id \in CallIds : GetTest(id)
    \/ GetRead
    \/ GetStore

SpecThreads == Init /\ [][NextThreads]_vars

\* C19: in every interleaving of a get with the registers of another
\* caller, a get that missed and fetched from the reader does not overwrite
\* the entity registered for its id since its test of the dict, and after a
\* register(e) every get of the id returns e until the next register for
\* it: each key with a registration holds the entity of the last one, and a
\* get that finds the key in the dict returns that entity.
C19_ThreadSafe ==
    /\ \A k \in StoreKeys : lastReg[k] # None => k \in DOMAIN by_id /\ by_id[k] = lastReg[k]
    /\ lastOp.op = "get" /\ lastOp.reader_calls = 0 /\ lastReg[lastOp.id] # None
         => lastOp.result = lastReg[lastOp.id]

-----------------------------------------------------------------------------
(* gts.py and store.py: query.  The expression is a sequence of            *)
(* characters.  The expressions of the model hold no backslash, so the     *)
(* escapes of shlex are left out; the whitespace is the blank.             *)

\* the decimal digits of n >= 0
RECURSIVE NatChars(_)
NatChars(n) ==
    LET d == <<"0", "1", "2", "3", "4", "5", "6", "7", "8", "9">>[(n % 10) + 1]
    IN IF n < 10 THEN <<d>> ELSE NatChars(n \div 10) \o <<d>>

(* str(value) of a JSON value.  The text of a dict or of a list is its     *)
(* repr, which starts with a brace or bracket; the model keeps only that   *)
(* it is a text no filter value of the model equals.                       *)
PyStr(j) ==
    CASE j.t = "str"  -> Chars(j.v)
      [] j.t = "num"  -> IF j.v < 0 THEN <<"-">> \o NatChars(-j.v) ELSE NatChars(j.v)
      [] j.t = "bool" -> IF j.v THEN <<"T", "r", "u", "e">> ELSE <<"F", "a", "l", "s", "e">>
      [] j.t = "null" -> <<"N", "o", "n", "e">>
      [] j.t = "obj"  -> <<"{", "}">>
      [] OTHER        -> <<"[", "]">>

\* obj.get(k) for a key given by its characters
GetByChars(obj, k) ==
    LET hits == {kk \in DOMAIN obj.v : Chars(kk) = k}
    IN IF hits = {} THEN None ELSE obj.v[CHOOSE kk \in hits : TRUE]

\* the index of the first c in cs, or of the last one; 0 if there is none
IndexOf(cs, c, first) ==
    LET hits == {i \in DOMAIN cs : cs[i] = c}
    IN IF hits = {} THEN 0
       ELSE IF first THEN CHOOSE i \in hits : \A j \in hits : i <= j
       ELSE CHOOSE i \in hits : \A j \in hits : j <= i

\* expr.partition("[")[0]
BeforeBracket(expr) ==
    IF IndexOf(expr, "[", TRUE) = 0 THEN expr ELSE SubSeq(expr, 1, IndexOf(expr, "[", TRUE) - 1)

\* expr.partition("[")[2], then rsplit("]", 1)[0]
FilterText(expr) ==
    LET filt == IF IndexOf(expr, "[", TRUE) = 0 THEN <<>>
                ELSE SubSeq(expr, IndexOf(expr, "[", TRUE) + 1, Len(expr))
    IN IF IndexOf(filt, "]", FALSE) = 0 THEN filt
       ELSE SubSeq(filt, 1, IndexOf(filt, "]", FALSE) - 1)

(* shlex.split from character i on: cur is the token being read, open says *)
(* that one is, quote is the quotation mark that is open ("" if none),     *)
(* toks are the tokens read.  ok is FALSE for "No closing quotation".      *)
RECURSIVE ShlexFrom(_, _, _, _, _, _)
ShlexFrom(cs, i, cur, open, quote, toks) ==
    IF i > Len(cs)
    THEN [ok |-> quote = "", tokens |-> IF open THEN Append(toks, cur) ELSE toks]
    ELSE IF quote # ""
         THEN IF cs[i] = quote THEN ShlexFrom(cs, i + 1, cur, TRUE, "", toks)
              ELSE ShlexFrom(cs, i + 1, Append(cur, cs[i]), TRUE, quote, toks)
    ELSE IF cs[i] = " "
         THEN ShlexFrom(cs, i + 1, <<>>, FALSE, "", IF open THEN Append(toks, cur) ELSE toks)
    ELSE IF cs[i] \in {"\"", "'"}
         THEN ShlexFrom(cs, i + 1, cur, TRUE, cs[i], toks)
    ELSE ShlexFrom(cs, i + 1, Append(cur, cs[i]), TRUE, "", toks)

ShlexSplit(cs) == ShlexFrom(cs, 1, <<>>, FALSE, "", <<>>)

\* v.strip('"')
RECURSIVE StripQuotes(_)
StripQuotes(cs) ==
    IF cs # <<>> /\ cs[1] = "\"" THEN StripQuotes(Tail(cs))
    ELSE IF cs # <<>> /\ cs[Len(cs)] = "\"" THEN StripQuotes(SubSeq(cs, 1, Len(cs) - 1))
    ELSE cs

\* k, v = tok.split("=", 1); (k.strip(), v.strip().strip('"'))
PairOf(tok) ==
    <<Strip(SubSeq(tok, 1, IndexOf(tok, "=", TRUE) - 1)),
      StripQuotes(Strip(SubSeq(tok, IndexOf(tok, "=", TRUE) + 1, Len(tok))))>>

\* the (k, v) of the tokens with a "=", in the order of the tokens
FilterPairs(tokens) ==
    LET with == SelectSeq(tokens, LAMBDA tok : IndexOf(tok, "=", TRUE) # 0)
    IN [i \in DOMAIN with |-> PairOf(with[i])]

\* the dict conditions: a later pair takes the place of an earlier one with its key
Conditions(pairs) ==
    [k \in {pairs[i][1] : i \in DOMAIN pairs} |->
        pairs[CHOOSE i \in DOMAIN pairs :
                /\ pairs[i][1] = k
                /\ \A j \in DOMAIN pairs : pairs[j][1] = k => j <= i][2]]

(* GtsID.parse_query: [ok, gts_base, pairs, conditions]; ok is FALSE when  *)
(* shlex.split raises ValueError.  pairs is not a value of the code: it is *)
(* the sequence of pairs that conditions is filled from.                   *)
ParseQueryOf(expr, split) ==
    [ok         |-> split.ok,
     gts_base   |-> Strip(BeforeBracket(expr)),
     pairs      |-> FilterPairs(split.tokens),
     conditions |-> Conditions(FilterPairs(split.tokens))]

ParseQuery(expr) == ParseQueryOf(expr, ShlexSplit(FilterText(expr)))

\* GtsID.match_query on a parsed expression
MatchQuery(id, obj, gts_field, q) ==
    /\ StartsWith(Chars(id), q.gts_base)
    /\ PyStr(DictGet(obj, gts_field, JStr(""))) = Chars(id)
    /\ \A k \in DOMAIN q.conditions : PyStr(GetByChars(obj, k)) = q.conditions[k]

\* the test of store.py line 264, and gts_field of line 265
Queried(entity) == IsDict(entity.content) /\ entity.gts_id # ""
QueryField(entity) ==
    IF entity.selected_entity_field # "" THEN entity.selected_entity_field ELSE "gtsId"

(* GtsStore.query along an iteration order of the dict's keys: [raised,    *)
(* result].  parse_query runs once for every entity that passes the test   *)
(* of line 264, so ValueError is raised only if there is one.              *)
QueryOutcome(by, order, q) ==
    LET tried == SelectSeq(order, LAMBDA k : Queried(by[k]))
        hits  == SelectSeq(tried, LAMBDA k : MatchQuery(by[k].gts_id, by[k].content,
                                                        QueryField(by[k]), q))
    IN IF tried # <<>> /\ ~q.ok THEN [raised |-> "ValueError", result |-> <<>>]
       ELSE [raised |-> "", result |-> [i \in DOMAIN hits |-> by[hits[i]].content]]

(* The orders in which the keys of a dict may be iterated.  A dict of the  *)
(* model stands for every insertion order of its keys.                     *)
KeyOrders(by) ==
    {o \in [1..Cardinality(DOMAIN by) -> DOMAIN by] : \A k \in DOMAIN by : \E i \in DOMAIN o : o[i] = k}

\* the parts the expressions of the runs are made of
QueryPrefixes ==
    {<<"g", "t", "s", ".">>, <<"g", "t", "s", ".", "a">>, <<" ", "g", "t", "s", ".", "a", " ">>,
     <<"g", "t", "s", ".", "b">>, <<"x">>}
QueryFilters ==
    {<<>>,
     <<"[", "]">>,
     <<"[", "n", "a", "m", "e", "=", "x", "]">>,
     <<"[", "n", "a", "m", "e", "=", "\"", "x", "\"", "]">>,
     <<"[", " ", "n", "a", "m", "e", "=", "'", "x", "'", " ", "]">>,
     <<"[", "n", "a", "m", "e", "=", "y", " ", "n", "a", "m", "e", "=", "x", "]">>,
     <<"[", "n", "a", "m", "e", "=", "x", " ", "n", "=", "1", "]">>,
     <<"[", "n", "=", "1", "]">>,
     <<"[", "r", "e", "f", "=", "N", "o", "n", "e", "]">>,
     <<"[", "n", "a", "m", "e", " ", "=", " ", "x", "]">>,
     <<"[", "n", "a", "m", "e", "=", "\"", "x", "]">>,
     <<"[", "n", "a", "m", "e", "=", "x">>}
QueryExprs == {p \o f : p \in QueryPrefixes, f \in QueryFilters}

\* a document with a number in it
DocN == Obj2("id", JStr("gts.b"), "n", JNum(1))
\* a document with two fields the filters name
DocXN == Obj3("id", JStr("gts.a"), "name", JStr("x"), "n", JNum(1))

\* the entities registered before a query
QueryEntities == {Extracted(d) : d \in {DocA, DocA2, DocXN, DocN}} \cup {ListEntity}

(* GtsStore.query.  A query leaves the store alone, so a query that       *)
(* follows a query reaches only the states the first one reaches: the      *)
(* runs take the queries that follow the construction or a registration.   *)
Query(expr) ==
    \E order \in KeyOrders(by_id) :
        /\ lastOp.op # "query"
        /\ lastOp' = [op |-> "query", expr |-> expr, order |-> order,
                      parsed |-> ParseQuery(expr),
                      raised |-> QueryOutcome(by_id, order, ParseQuery(expr)).raised,
                      result |-> QueryOutcome(by_id, order, ParseQuery(expr)).result]
        /\ UNCHANGED <<by_id, reader, lastReg, replacedKeys, castVars, callVars>>

NextQuery ==
    \/ \E e \in QueryEntities : Register(e)
    \/ \E c \in {<<"gts.t~", SchemaBase>>} : RegisterSchema(c[1], c[2])
    \/ \E expr \in QueryExprs : Query(expr)

\* the store is built without a reader
SpecQuery == InitId /\ [][NextQuery]_vars


(* The entities the specification lets a query return: the identifier      *)
(* starts with the prefix, the content is an object whose id field has the *)
(* identifier, and every pair k=v of the filter has str(content.get(k))    *)
(* equal to v.  The prefix is taken stripped and a key the content lacks   *)
(* has the text None, as in the code.                                      *)
SatisfiesQuery(entity, q) ==
    /\ IsDict(entity.content)
    /\ StartsWith(Chars(entity.gts_id), q.gts_base)
    /\ PyStr(DictGet(entity.content, QueryField(entity), JStr(""))) = Chars(entity.gts_id)
    /\ \A i \in DOMAIN q.pairs : PyStr(GetByChars(entity.content, q.pairs[i][1])) = q.pairs[i][2]

\* the contents of the entities of by that satisfy q, along order
ExpectedResult(by, order, q) ==
    LET hits == SelectSeq(order, LAMBDA k : SatisfiesQuery(by[k], q))
    IN [i \in DOMAIN hits |-> by[hits[i]].content]

(* C20, as the specification states it: a query that returns, returns the  *)
(* contents of exactly the stored entities that satisfy the prefix, the    *)
(* id-field test and every pair of the filter, in the order of iteration.  *)
C20_QueryExact ==
    (lastOp.op = "query" /\ lastOp.raised = "")
        => lastOp.result = ExpectedResult(by_id, lastOp.order, lastOp.parsed)

-----------------------------------------------------------------------------
(* store.py: the construction over a reader, entity by entity.  Here the   *)
(* reader has, next to items and lookup, the sequence yields of the        *)
(* entities its one iteration yields; lastOp holds how many of them the    *)
(* loop of _populate_from_reader has taken.                                *)

\* the entities a reader yields; the one of DocAnon has no identifier
YieldEntities == {Extracted(d) : d \in {DocA, DocA2, DocB, DocAnon}}

YieldSeqs == UNION {[1..n -> YieldEntities] : n \in 0..3}

YieldReaders ==
    {None} \cup {[items |-> {ys[i] : i \in DOMAIN ys}, lookup |-> {}, yields |-> ys] : ys \in YieldSeqs}

\* the body of the loop as it would be without the test of line 82
PopulateWriteAll(by, entity) == StorePut(by, entity.gts_id, entity)

\* the body of the loop of _populate_from_reader
PopulateWrite(by, entity) ==
    IF entity.gts_id # "" THEN StorePut(by, entity.gts_id, entity) ELSE by

\* GtsStore.__init__ up to the test of the reader
InitPopulate ==
    /\ reader \in YieldReaders
    /\ by_id = EmptyStore
    /\ lastOp = [op |-> "__init__", taken |-> 0]
    /\ lastReg = [k \in StoreKeys |-> None]
    /\ replacedKeys = {}
    /\ CastIdle
    /\ CallsIdle

\* one turn of the loop of _populate_from_reader
PopulateStep ==
    /\ lastOp.op = "__init__"
    /\ reader # None
    /\ lastOp.taken < Len(reader.yields)
    /\ by_id' = PopulateWrite(by_id, reader.yields[lastOp.taken + 1])
    /\ lastOp' = [lastOp EXCEPT !.taken = @ + 1]
    /\ UNCHANGED <<reader, lastReg, replacedKeys, castVars, callVars>>

\* the return of GtsStore.__init__: no reader, or the iteration is at its end
PopulateReturn ==
    /\ lastOp.op = "__init__"
    /\ IF reader = None THEN TRUE ELSE lastOp.taken = Len(reader.yields)
    /\ lastOp' = [op |-> "constructed", taken |-> lastOp.taken]
    /\ UNCHANGED <<by_id, reader, lastReg, replacedKeys, castVars, callVars>>

NextPopulate == PopulateStep \/ PopulateReturn

SpecPopulate == InitPopulate /\ [][NextPopulate]_vars

\* the positions of ys whose entity has the identifier k
YieldedAs(ys, k) == {i \in DOMAIN ys : ys[i].gts_id = k}

\* the last entity of ys with the identifier k (there is one)
LastYielded(ys, k) ==
    ys[CHOOSE i \in YieldedAs(ys, k) : \A j \in YieldedAs(ys, k) : j <= i]

(* C21: the construction over a reader takes every yielded entity once;    *)
(* when it returns, the keys of the map are the identifiers of the yielded *)
(* entities that have one, each key holds the last entity yielded with it, *)
(* and at no time does the map hold an entity without identifier.          *)
C21_Populate ==
    /\ \A k \in DOMAIN by_id : k # "" /\ by_id[k].gts_id # ""
    /\ (lastOp.op = "constructed" /\ reader # None) =>
          /\ lastOp.taken = Len(reader.yields)
          /\ DOMAIN by_id = {reader.yields[i].gts_id : i \in DOMAIN reader.yields} \ {""}
          /\ \A k \in DOMAIN by_id : by_id[k] = LastYielded(reader.yields, k)

(* A construction has returned over a reader that yielded two entities     *)
(* with one identifier and then one with none: the map holds the second.   *)
C21_Witness ==
    /\ lastOp.op = "constructed"
    /\ reader # None
    /\ reader.yields = <<Extracted(DocA), Extracted(DocA2), Extracted(DocAnon)>>
    /\ DOMAIN by_id = {"gts.a"}
    /\ by_id["gts.a"] = Extracted(DocA2)

-----------------------------------------------------------------------------
(* schema_cast.py: _infer_direction on its own.  The identifiers are       *)
(* sequences of characters.                                                *)

\* the parts the identifiers of the runs are made of
DirTypes    == {<<"x", ".", "p", ".", "n", ".", "t">>, <<"y", ".", "p", ".", "n", ".", "t">>}
DirVersions == {<<>>, <<".", "v", "1">>, <<".", "v", "1", ".", "0">>, <<".", "v", "1", ".", "1">>,
                <<".", "v", "2", ".", "0">>}
DirTails    == {<<>>, <<"~">>}
DirIds ==
    {GTS_PREFIX \o t \o v \o e : t \in DirTypes, v \in DirVersions, e \in DirTails}
        \cup {<<"x">>}

\* JsonEntityCastResult._infer_direction, called once
InferDirectionCall(from_id, to_id) ==
    /\ lastOp = NoOp
    /\ lastOp' = [op |-> "_infer_direction", from_id |-> from_id, to_id |-> to_id,
                  direction |-> DirectionOf(ParseGtsID(from_id), ParseGtsID(to_id))]
    /\ UNCHANGED <<by_id, reader, lastReg, replacedKeys, castVars, callVars>>

NextDirection == \E f \in DirIds, t \in DirIds : InferDirectionCall(f, t)

SpecDirection == InitId /\ [][NextDirection]_vars

\* vendor, package, namespace and type of the last segment
TypeOfLast(g) ==
    LET seg == g.gts_id_segments[Len(g.gts_id_segments)]
    IN <<seg.vendor, seg.package, seg.namespace, seg.type>>

(* C22, as the specification states it: the direction is up, down or none  *)
(* only if both identifiers parse, both have a minor version and both name *)
(* the same type; it is then up if the minor version of the target is the  *)
(* greater, down if it is the smaller, none if they are equal.             *)
C22_Direction ==
    lastOp.op = "_infer_direction" =>
        LET f == ParseGtsID(lastOp.from_id)
            t == ParseGtsID(lastOp.to_id)
        IN IF /\ f.valid /\ t.valid
              /\ LastMinor(f) # <<>> /\ LastMinor(t) # <<>>
              /\ TypeOfLast(f) = TypeOfLast(t)
           THEN lastOp.direction =
                    IF LastMinor(t)[1] > LastMinor(f)[1] THEN "up"
                    ELSE IF LastMinor(t)[1] < LastMinor(f)[1] THEN "down" ELSE "none"
           ELSE lastOp.direction = "unknown"

-----------------------------------------------------------------------------
(* store.py: validate_instance *)

\* get_schema_content without the test of the content
SchemaContentFoundAny(entity) == entity # None

\* get_schema_content, line 129: the entity has a content to return
SchemaContentFound(entity) == entity # None /\ IsDict(entity.content)

(* validate_instance from line 150 on, given the entity the first get      *)
(* returned and, when the call comes to get_schema_content, what its get   *)
(* returned: the name of the exception raised, "" for a return.  The       *)
(* validator raises jsonschema's ValidationError.                          *)
ValidateChecks(obj, schema_entity) ==
    IF obj = None THEN "StoreGtsObjectNotFound"
    ELSE IF obj.schemaId = "" THEN "StoreGtsSchemaForInstanceNotFound"
    ELSE IF ~SchemaContentFound(schema_entity) THEN "StoreGtsSchemaNotFound"
    ELSE IF JsErrors(obj.content, schema_entity.content) # {} THEN "ValidationError"
    ELSE ""

\* the documents of the runs: instances that name their schema in "type"
DocT1 == Obj3("id", JStr("gts.a"), "type", JStr("gts.s~"), "a", JNum(1))
DocT2 == Obj2("id", JStr("gts.b"), "type", JStr("gts.s~"))
DocT3 == Obj2("id", JStr("gts.zz"), "type", JStr("gts.t~"))

\* an entity under a type identifier whose content is no object
ListSchemaEntity == JsonEntity(JArr(<<>>), None, "gts.t~", TRUE, "")

ValidateEntities ==
    {Extracted(d) : d \in {DocA, DocT1, DocT2, DocT3, DocS}} \cup {ListSchemaEntity}

ValidateIds == CallIds \cup {"x", "gts.", " gts.s~"}

\* GtsStore.validate_instance
ValidateInstance(gts_id) ==
    IF ~GtsID(gts_id).valid
    THEN /\ lastOp' = [op |-> "validate_instance", id |-> gts_id,
                       raised |-> ParseErrorClass(GtsID(gts_id).cause)]
         /\ UNCHANGED <<by_id, reader, lastReg, replacedKeys, castVars, callVars>>
    ELSE \E r1 \in Responses(by_id, reader, GtsID(gts_id).id) :
           LET g1 == GetOutcome(by_id, reader, GtsID(gts_id).id, r1)
           IN IF g1.result = None \/ g1.result.schemaId = ""
              THEN /\ by_id' = g1.by_id
                   /\ lastOp' = [op |-> "validate_instance", id |-> gts_id,
                                 raised |-> ValidateChecks(g1.result, None)]
                   /\ UNCHANGED <<reader, lastReg, replacedKeys, castVars, callVars>>
              ELSE \E r2 \in Responses(g1.by_id, reader, g1.result.schemaId) :
                     LET g2 == GetOutcome(g1.by_id, reader, g1.result.schemaId, r2)
                     IN /\ by_id' = g2.by_id
                        /\ lastOp' = [op |-> "validate_instance", id |-> gts_id,
                                      raised |-> ValidateChecks(g1.result, g2.result)]
                        /\ UNCHANGED <<reader, lastReg, replacedKeys, castVars, callVars>>

NextValidate ==
    \/ \E e \in ValidateEntities : Register(e)
    \/ \E id \in ValidateIds : ValidateInstance(id)

SpecValidate == Init /\ [][NextValidate]_vars

(* C23: validate_instance reports the first failure in this order: an id   *)
(* that does not parse, an id under which there is no entity, an entity    *)
(* with no schemaId, a schemaId under which there is no entity with an     *)
(* object for content, a content the validator rejects against that        *)
(* object; it returns only if none of them is met.  The entities are the   *)
(* ones the map holds after the call: a get keeps what it found.           *)
C23_ValidateOrder ==
    lastOp.op = "validate_instance" =>
        LET gid == GtsID(lastOp.id)
        IN IF ~gid.valid THEN lastOp.raised \in {"GtsInvalidId", "GtsInvalidSegment"}
           ELSE IF gid.id \notin DOMAIN by_id THEN lastOp.raised = "StoreGtsObjectNotFound"
           ELSE LET obj == by_id[gid.id]
                IN IF obj.schemaId = ""
                   THEN lastOp.raised = "StoreGtsSchemaForInstanceNotFound"
                   ELSE IF \/ obj.schemaId \notin DOMAIN by_id
                           \/ ~IsDict(by_id[obj.schemaId].content)
                        THEN lastOp.raised = "StoreGtsSchemaNotFound"
                   ELSE IF JsErrors(obj.content, by_id[obj.schemaId].content) # {}
                        THEN lastOp.raised = "ValidationError"
                   ELSE lastOp.raised = ""

(* An instance whose schemaId names an entity with a list for content has  *)
(* been validated, and so has one its schema rejects.                      *)
C23_Witness ==
    /\ lastOp.op = "validate_instance"
    /\ lastOp.id = "gts.b"
    /\ lastOp.raised = "ValidationError"
    /\ "gts.t~" \in DOMAIN by_id
    /\ "gts.zz" \in DOMAIN by_id

-----------------------------------------------------------------------------
(* C24, as the specification states it: the node build_schema_graph makes  *)
(* for the id it starts from has errors ["Entity not found"] and neither   *)
(* refs nor schema_id if no entity is found under the id, and has errors   *)
(* ["Schema not recognized"] if the entity found has no schemaId; a node   *)
(* that is returned has no refs entry for a reference to its own id and no *)
(* schema_id for a schemaId at json-schema.org.  The entity is the one the *)
(* map holds after the call: a get keeps what it found.                    *)
C24_NodeRules ==
    lastOp.op = "build_schema_graph" =>
        IF lastOp.id \notin DOMAIN by_id
        THEN lastOp.node = [id |-> lastOp.id, errors |-> <<"Entity not found">>]
        ELSE /\ by_id[lastOp.id].schemaId = "" =>
                  /\ lastOp.raised = ""
                  /\ "errors" \in DOMAIN lastOp.node
                  /\ lastOp.node.errors = <<"Schema not recognized">>
             /\ (/\ lastOp.raised = ""
                 /\ \A r \in by_id[lastOp.id].gts_refs : r.id = lastOp.id
                 /\ IsJsonSchemaOrg(by_id[lastOp.id].schemaId)) =>
                  lastOp.node = [id |-> lastOp.id]

-----------------------------------------------------------------------------
(* entities.py: JsonEntity built from a document, on its own *)

\* the values a field of the documents holds; Absent is for a key the document lacks
IdFieldValues ==
    {Absent, JStr("gts.a"), JStr("gts.b"), JStr("x"), JStr(" "), JStr(""), JNum(1)}

\* documents with some of three of the fields entity_id_fields names
IdDocs ==
    {Compact([k \in {"$id", "gtsId", "id"} |-> f[k]]) : f \in [{"$id", "gtsId", "id"} -> IdFieldValues]}

\* JsonEntity(content=doc, cfg=DEFAULT_GTS_CONFIG), called once
ExtractEntity(doc) ==
    /\ lastOp = NoOp
    /\ lastOp' = [op |-> "JsonEntity", content |-> doc, entity |-> Extracted(doc)]
    /\ UNCHANGED <<by_id, reader, lastReg, replacedKeys, castVars, callVars>>

NextExtract == \E doc \in IdDocs : ExtractEntity(doc)

SpecExtract == InitId /\ [][NextExtract]_vars

\* the least index of a non-empty set of indices
FirstIndex(S) == CHOOSE i \in S : \A j \in S : i <= j

\* what C25 says of the entity built from content, given the indices of
\* entity_id_fields that count as holding a non-empty string
SelectionRule(content, entity, filled) ==
    LET fields == DEFAULT_GTS_CONFIG.entity_id_fields
        valid  == {i \in DOMAIN fields : /\ FieldValue(content, fields[i]).t = "str"
                                         /\ IsValidGtsID(FieldValue(content, fields[i]).v)}
    IN IF valid # {}
       THEN /\ entity.selected_entity_field = fields[FirstIndex(valid)]
            /\ entity.gts_id = GtsID(FieldValue(content, fields[FirstIndex(valid)]).v).id
       ELSE IF filled # {}
            THEN /\ entity.selected_entity_field = fields[FirstIndex(filled)]
                 /\ entity.gts_id = ""
       ELSE /\ entity.selected_entity_field = ""
            /\ entity.gts_id = ""

(* C25, as the specification states it: the first field of                 *)
(* entity_id_fields that holds a valid identifier is selected; if there is *)
(* none, the first field that holds a non-empty string is selected and     *)
(* gts_id stays unset.                                                     *)
C25_Selection ==
    lastOp.op = "JsonEntity" =>
        SelectionRule(lastOp.content, lastOp.entity,
                      {i \in DOMAIN DEFAULT_GTS_CONFIG.entity_id_fields :
                         LET v == FieldValue(lastOp.content, DEFAULT_GTS_CONFIG.entity_id_fields[i])
                         IN v.t = "str" /\ v.v # ""})

(* C25, amended: as above, with a string of blanks alone counting as       *)
(* empty: the field selected when no identifier is valid is the first one  *)
(* whose string has a character that is no blank.                          *)
C25_SelectionAmended ==
    lastOp.op = "JsonEntity" =>
        SelectionRule(lastOp.content, lastOp.entity,
                      {i \in DOMAIN DEFAULT_GTS_CONFIG.entity_id_fields :
                         LET v == FieldValue(lastOp.content, DEFAULT_GTS_CONFIG.entity_id_fields[i])
                         IN v.t = "str" /\ Strip(Chars(v.v)) # <<>>})

(* An entity has been built from a document whose first field holds a      *)
(* string that is no identifier and whose last field holds an identifier.  *)
C25_Witness ==
    /\ lastOp.op = "JsonEntity"
    /\ lastOp.content = Obj2("$id", JStr("x"), "id", JStr("gts.a"))
    /\ lastOp.entity.selected_entity_field = "id"
    /\ lastOp.entity.gts_id = "gts.a"

-----------------------------------------------------------------------------
(* entities.py: the extraction of references, in order.  A dict is here    *)
(* [t |-> "odict", v |-> the sequence of its <<key, value>> entries in     *)
(* insertion order], with no key twice; the other values are as before.    *)

ODict(entries) == [t |-> "odict", v |-> entries]

\* the value with the dicts as functions
RECURSIVE Unordered(_)
Unordered(o) ==
    CASE o.t = "odict" ->
           JObj([k \in {o.v[i][1] : i \in DOMAIN o.v} |->
                   Unordered(o.v[CHOOSE i \in DOMAIN o.v : o.v[i][1] = k][2])])
      [] o.t = "arr" -> JArr([i \in DOMAIN o.v |-> Unordered(o.v[i])])
      [] OTHER -> o

\* walk of _extract_gts_ids_with_paths: the list found, in the order of the appends
RECURSIVE WalkFound(_, _), WalkItems(_, _, _), WalkEntries(_, _, _)
WalkFound(node, current_path) ==
    CASE node.t = "str" ->
           IF IsValidGtsID(node.v)
           THEN <<[id |-> node.v,
                   sourcePath |-> IF current_path # "" THEN current_path ELSE "root"]>>
           ELSE <<>>
      [] node.t = "arr"   -> WalkItems(node.v, 1, current_path)
      [] node.t = "odict" -> WalkEntries(node.v, 1, current_path)
      [] OTHER -> <<>>

\* lines 188-190, from the item at i on
WalkItems(items, i, current_path) ==
    IF i > Len(items) THEN <<>>
    ELSE WalkFound(items[i], current_path \o "[" \o ToString(i - 1) \o "]")
             \o WalkItems(items, i + 1, current_path)

\* lines 192-197, from the entry at i on
WalkEntries(entries, i, current_path) ==
    IF i > Len(entries) THEN <<>>
    ELSE LET v         == entries[i][2]
             next_path == PathJoin(current_path, entries[i][1])
         IN (IF v.t = "str" /\ IsValidGtsID(v.v)
             THEN <<[id |-> v.v, sourcePath |-> next_path]>> ELSE <<>>)
                \o WalkFound(v, next_path)
                \o WalkEntries(entries, i + 1, current_path)

\* walk of _extract_ref_strings_with_paths
RECURSIVE WalkRefs(_, _), WalkRefItems(_, _, _), WalkRefEntries(_, _, _)
WalkRefs(node, current_path) ==
    CASE node.t = "odict" ->
           (IF \E i \in DOMAIN node.v : node.v[i][1] = "$ref" /\ node.v[i][2].t = "str"
            THEN <<[id |-> (node.v[CHOOSE i \in DOMAIN node.v : node.v[i][1] = "$ref"][2]).v,
                    sourcePath |-> PathJoin(current_path, "$ref")]>>
            ELSE <<>>) \o WalkRefEntries(node.v, 1, current_path)
      [] node.t = "arr" -> WalkRefItems(node.v, 1, current_path)
      [] OTHER -> <<>>

WalkRefItems(items, i, current_path) ==
    IF i > Len(items) THEN <<>>
    ELSE WalkRefs(items[i], current_path \o "[" \o ToString(i - 1) \o "]")
             \o WalkRefItems(items, i + 1, current_path)

WalkRefEntries(entries, i, current_path) ==
    IF i > Len(entries) THEN <<>>
    ELSE WalkRefs(entries[i][2], PathJoin(current_path, entries[i][1]))
             \o WalkRefEntries(entries, i + 1, current_path)

(* The loop that fills uniq from the record at i on: keys are the keys of  *)
(* the dict in insertion order, vals its values.  The value is             *)
(* list(uniq.values()).                                                    *)
RECURSIVE UniqFrom(_, _, _, _)
UniqFrom(found, i, keys, vals) ==
    IF i > Len(found) THEN [n \in DOMAIN keys |-> vals[keys[n]]]
    ELSE LET key == found[i].id \o "|" \o found[i].sourcePath
         IN UniqFrom(found, i + 1,
                     IF key \in DOMAIN vals THEN keys ELSE Append(keys, key),
                     (key :> found[i]) @@ vals)

\* the list as it is found, with nothing removed
AllFound(found) == found

\* lines 200-203 and 228-232
UniqValues(found) == UniqFrom(found, 1, <<>>, EmptyMap)

\* the documents of the runs
RefLeaves == {JStr("gts.a"), JStr("gts.b"), JStr("x")}
RefNested == {JNull, JNum(1), ODict(<<<<"$ref", JStr("gts.b")>>, <<"id", JStr("gts.a")>>>>)}
RefDocs ==
    {ODict(h \o <<<<"id", a>>, <<"ref", b>>, <<"list", JArr(<<c, n>>)>>>>) :
        h \in {<<>>, <<<<"$schema", JStr(JSON_SCHEMA_URL)>>>>},
        a \in RefLeaves, b \in RefLeaves, c \in RefLeaves, n \in RefNested}
        \cup {JStr("gts.a"), JArr(<<JStr("gts.a"), JStr("gts.a")>>)}

(* JsonEntity(content=doc, is_schema=is_schema), lines 110-113 and         *)
(* 144-147, called once: the two lists of references it leaves             *)
ExtractRefs(doc, is_schema) ==
    /\ lastOp = NoOp
    /\ lastOp' = [op |-> "extract_refs", content |-> doc,
                  is_schema |-> is_schema \/ IsJsonSchemaEntity(Unordered(doc)),
                  gts_refs |-> UniqValues(WalkFound(doc, "")),
                  schemaRefs |-> IF is_schema \/ IsJsonSchemaEntity(Unordered(doc))
                                 THEN UniqValues(WalkRefs(doc, "")) ELSE <<>>]
    /\ UNCHANGED <<by_id, reader, lastReg, replacedKeys, castVars, callVars>>

NextRefs == \E doc \in RefDocs, is_schema \in BOOLEAN : ExtractRefs(doc, is_schema)

SpecRefs == InitId /\ [][NextRefs]_vars

\* the records of found without the ones that occur earlier in it, in the order of found
FirstOccurrences(found) ==
    LET idx == SelectSeq([i \in DOMAIN found |-> i],
                         LAMBDA i : \A j \in 1..(i - 1) : found[j] # found[i])
    IN [n \in DOMAIN idx |-> found[idx[n]]]

-----------------------------------------------------------------------------
(* gts.py: identifiers with version tokens *)

\* the tokens the identifiers of the runs have in fifth and in sixth place
MajorTokens ==
    {<<"v", "1">>, <<"v", "1", "0">>, <<"v", "-", "1">>, <<"v", "+", "1">>, <<"v", " ", "1">>,
     <<"v">>, <<"1">>, <<"v", "x">>, <<"*">>}
MinorTokens == {<<"0">>, <<"2">>, <<"-", "2">>, <<"+", "2">>, <<"x">>, <<>>, <<"*">>}

VersionIds ==
    {GTS_PREFIX \o <<"a", ".", "b", ".", "c", ".", "d", ".">> \o ma \o mi \o e :
        ma \in MajorTokens,
        mi \in {<<>>} \cup {<<".">> \o t : t \in MinorTokens},
        e \in {<<>>, <<"~">>}}

NextVersion == \E s \in VersionIds : ParseId(s)

SpecVersion == InitId /\ [][NextVersion]_vars

\* an unsigned integer: decimal digits, at least one
IsUnsigned(cs) == cs # <<>> /\ \A i \in DOMAIN cs : DigitVal(cs[i]) >= 0

(* C27, as the specification states it: every segment of an identifier the *)
(* parse accepts has ver_major >= 0 and ver_minor unset or >= 0; and the   *)
(* parse fails if the fifth token of a segment is not "v" followed by an   *)
(* unsigned integer, or its sixth token is not an unsigned integer (a "*"  *)
(* ends the parse of the segment and is left aside).                       *)
C27_Versions ==
    (lastOp.op = "parse" /\ lastOp.parsed.valid) =>
        \A n \in DOMAIN lastOp.parsed.gts_id_segments :
            LET seg    == lastOp.parsed.gts_id_segments[n]
                tokens == SegmentTokens(seg.segment)
            IN /\ seg.ver_major >= 0
               /\ seg.ver_minor = <<>> \/ seg.ver_minor[1] >= 0
               /\ (Len(tokens) >= 5 /\ ~seg.is_wildcard) =>
                     /\ tokens[5][1] = "v"
                     /\ IsUnsigned(Tail(tokens[5]))
               /\ (Len(tokens) >= 6 /\ ~seg.is_wildcard) => IsUnsigned(tokens[6])

-----------------------------------------------------------------------------
(* store.py: the keys of the map under construction, register,             *)
(* register_schema and get                                                 *)

KeyEntities    == {Extracted(d) : d \in {DocA, DocA2, DocB, DocS}}
KeySchemaCalls == {<<"gts.t~", SchemaBase>>, <<" gts.s~", SchemaBase>>, <<"gts.a", SchemaBase>>}

NextKeys ==
    \/ \E e \in KeyEntities : Register(e)
    \/ \E c \in KeySchemaCalls : RegisterSchema(c[1], c[2])
    \/ \E id \in StoreKeys : Get(id)

SpecKeys == Init /\ [][NextKeys]_vars

(* C28, as the specification states it: every key of the map holds an      *)
(* entity whose own identifier (gts_id.id) is the key.                     *)
C28_KeysCanonical == \A k \in DOMAIN by_id : by_id[k].gts_id = k

-----------------------------------------------------------------------------
(* store.py: cast, and the calls that only read the map *)

(* JsonEntity.cast, entities.py lines 168-173, on the two entities found:  *)
(* the exception raised for the kinds of the entities, "" if none is       *)
CastKinds(from_entity, to_schema) ==
    IF from_entity.is_schema THEN "SchemaCastError"
    ELSE IF ~to_schema.is_schema THEN "SchemaCastError"
    ELSE ""

\* GtsStore.cast
StoreCast(instance_id, target_schema_id) ==
    \E r1 \in Responses(by_id, reader, instance_id) :
      LET g1 == GetOutcome(by_id, reader, instance_id, r1)
      IN IF g1.result = None
         THEN /\ by_id' = g1.by_id
              /\ lastOp' = [op |-> "cast", from |-> instance_id, to |-> target_schema_id,
                            raised |-> "StoreGtsObjectNotFound", result |-> NoResult]
              /\ UNCHANGED <<reader, lastReg, replacedKeys, castVars, callVars>>
         ELSE \E r2 \in Responses(g1.by_id, reader, target_schema_id) :
                LET g2 == GetOutcome(g1.by_id, reader, target_schema_id, r2)
                IN IF g2.result = None
                   THEN /\ by_id' = g2.by_id
                        /\ lastOp' = [op |-> "cast", from |-> instance_id,
                                      to |-> target_schema_id,
                                      raised |-> "StoreGtsObjectNotFound", result |-> NoResult]
                        /\ UNCHANGED <<reader, lastReg, replacedKeys, castVars, callVars>>
                   ELSE IF CastKinds(g1.result, g2.result) # ""
                   THEN /\ by_id' = g2.by_id
                        /\ lastOp' = [op |-> "cast", from |-> instance_id,
                                      to |-> target_schema_id,
                                      raised |-> CastKinds(g1.result, g2.result),
                                      result |-> NoResult]
                        /\ UNCHANGED <<reader, lastReg, replacedKeys, castVars, callVars>>
                   ELSE \E res \in CastResults(g1.result.gts_id, g2.result.gts_id,
                                               g1.result.content, g2.result.content) :
                          /\ by_id' = g2.by_id
                          /\ lastOp' = [op |-> "cast", from |-> instance_id,
                                        to |-> target_schema_id, raised |-> "",
                                        result |-> res]
                          /\ UNCHANGED <<reader, lastReg, replacedKeys, castVars, callVars>>

\* the calls of the runs
FrameEntities    == {Extracted(d) : d \in {DocA2, DocT1, DocS}}
FrameSchemaCalls == {"gts.t~"} \X {SchemaChanged, SchemaClosed}
FrameIds         == {"gts.a", "gts.b", "gts.s~", "gts.t~"}
FrameExprs ==
    {<<"g", "t", "s", ".">>, <<"g", "t", "s", ".", "a", "[", "n", "a", "m", "e", "=", "x", "]">>}

NextFrame ==
    \/ \E e \in FrameEntities : Register(e)
    \/ \E c \in FrameSchemaCalls : RegisterSchema(c[1], c[2])
    \/ \E id \in FrameIds : ValidateInstance(id)
    \/ \E f \in FrameIds, t \in FrameIds : StoreCast(f, t)
    \/ \E o \in FrameIds, n \in FrameIds : IsMinorCompatible(o, n)
    \/ \E expr \in FrameExprs : Query(expr)
    \/ \E id \in FrameIds : BuildSchemaGraph(id)

SpecFrame == Init /\ [][NextFrame]_vars

(* C29: over a store with no reader, or with a reader whose read_by_id     *)
(* finds nothing, a call of validate_instance, cast, is_minor_compatible,  *)
(* query or build_schema_graph leaves the map as it was, whether it        *)
(* returns or raises: the same keys, the same entity under each key, with  *)
(* the same content.                                                       *)
C29_Frame ==
    [][(/\ lastOp'.op \in {"validate_instance", "cast", "is_minor_compatible", "query",
                           "build_schema_graph"}
        /\ IF reader = None THEN TRUE ELSE reader.lookup = {})
          => by_id' = by_id]_vars

(* A cast has returned an instance with a default added, and the map still *)
(* holds the source as it was registered and the target schema.            *)
C29_Witness ==
    /\ lastOp.op = "cast"
    /\ lastOp.raised = ""
    /\ lastOp.result.fully_compatible
    /\ lastOp.result.added_properties = {"a"}
    /\ reader = None
    /\ by_id["gts.a"] = Extracted(DocA2)
    /\ by_id["gts.t~"].content = SchemaChanged

-----------------------------------------------------------------------------
\* the names of the required list that step 3 deletes: the schema is closed
\* and its properties do not declare them
RequiredUndeclared(schema) ==
    IF IsClosed(schema) THEN RequiredSet(schema) \ DOMAIN TargetProps(schema).v ELSE {}

\* the nested levels of the transformed object: the properties of type object
\* whose value was an object
NestedLevels == NestedNames(castInput.instance, TargetOf) \cap DOMAIN castXform.result.v

(* C30, as the specification states it: when the transformation of an      *)
(* object completes, every name of the required list is a key of the       *)
(* transformed object, at the top level and at the nested one.             *)
C30_RequiredPresent ==
    (castPc = "cast" /\ IsDict(castInput.instance) /\ castXform.ok) =>
        /\ RequiredSet(TargetOf) \subseteq DOMAIN castXform.result.v
        /\ \A n \in NestedLevels :
              RequiredSet(NestedSchema(TargetOf, n)) \subseteq DOMAIN castXform.result.v[n].v

(* C30, amended: every name of the required list is a key of the           *)
(* transformed object, except the names that the properties of a schema    *)
(* with additionalProperties false do not declare: those are not keys of   *)
(* it, step 3 has deleted them.                                            *)
C30_RequiredPresentAmended ==
    (castPc = "cast" /\ IsDict(castInput.instance) /\ castXform.ok) =>
        /\ RequiredSet(TargetOf) \ RequiredUndeclared(TargetOf) \subseteq DOMAIN castXform.result.v
        /\ RequiredUndeclared(TargetOf) \cap DOMAIN castXform.result.v = {}
        /\ \A n \in NestedLevels :
              LET nested == NestedSchema(TargetOf, n)
              IN /\ RequiredSet(nested) \ RequiredUndeclared(nested)
                        \subseteq DOMAIN castXform.result.v[n].v
                 /\ RequiredUndeclared(nested) \cap DOMAIN castXform.result.v[n].v = {}

(* A transformation has completed for a closed schema that requires z and  *)
(* does not declare it, on an instance that has z: z is removed, and the   *)
(* validation of the result against the target schema fails.               *)
C30_Witness ==
    /\ castPc = "cast"
    /\ castXform.ok
    /\ IsDict(castInput.instance)
    /\ "z" \in DOMAIN castInput.instance.v
    /\ "z" \in RequiredUndeclared(TargetOf)
    /\ "z" \in castXform.removed
    /\ "z" \notin DOMAIN castXform.result.v
    /\ ~castResult.fully_compatible

=============================================================================
